---- MODULE Spec2Model ----
(***************************************************************************)
(* Map screen of lycoris-mobile (src/src/screens/DocsScreen.tsx,           *)
(* MapScreen): the viewport store, the marker query coordinator, the       *)
(* location arbiter and the startup camera, as one state machine.          *)
(*                                                                         *)
(* Latitudes and longitudes are integers in millidegrees (170000 is 170    *)
(* degrees), so that the 359.999 degree whole-world threshold is exact.    *)
(* Time advances in ticks of 450 ms: the camera debounce is one tick, the  *)
(* 1800 ms watchdog, startup delay and fallback cooldown are four.         *)
(* One action is one handler together with the React effects its state     *)
(* changes schedule (they run in the commit that follows the handler).     *)
(***************************************************************************)
EXTENDS Integers, Sequences, FiniteSets, TLC

\* ------------------------------------------------------------------ bounds

\* Highest query sequence number a behaviour reaches.
MaxSeq == 6
\* Most viewport loads awaiting their responses at once.
MaxInFlight == 2
\* Camera changes counted in one burst (the count stops there).
MaxBurst == 2

\* ----------------------------------------------------- program constants

\* |east - west| >= 359.999 degrees is the whole world.
WholeWorldSpan == 359999
\* 1800 ms in ticks: the geoError fallback cooldown.
CooldownTicks == 4
\* 1800 ms in ticks: the startup camera watchdog.
WatchdogTicks == 4
\* 1800 ms in ticks: the delay of the startup native location request.
NativeStartTicks == 4
\* 450 ms in ticks: the camera persistence debounce.
PersistTicks == 1
\* Zoom of a camera command that centres on the user.
UserZoom == 15
\* Zoom limits of a stored camera, and the zoom of a stored camera without one.
MinZoom == 3
MaxZoom == 20
DefaultStoredZoom == 11

\* null, for a state or ref that holds a record otherwise.
Null == [null |-> TRUE]
IsNull(v) == "null" \in DOMAIN v
\* A timer that is not armed; an armed timer holds the ticks left to its firing.
TimerOff == 0 - 1

supportedCategories ==
  <<"accessible_toilet", "friendly_clinic", "conversion_therapy", "self_definition">>

INITIAL_VIEW == [latitude |-> 39904, longitude |-> 116407, zoom |-> 11]

\* --------------------------------------------------------------- GeoBounds

MathMin(a, b) == IF a <= b THEN a ELSE b
MathMax(a, b) == IF a >= b THEN a ELSE b
MathAbs(a) == IF a >= 0 THEN a ELSE -a

\* The % of JavaScript: the remainder has the sign of the dividend.
JsRem(a, b) == IF a >= 0 THEN a % b ELSE -((-a) % b)

\* clampLat that returns its argument.
clampLatOff(value) == value
clampLat(value) == MathMax(-90000, MathMin(90000, value))

\* normalizeLng without the + 360 that lifts a negative remainder.
normalizeLngNoOffset(value) ==
  MathMax(-180000, MathMin(180000, JsRem(value + 180000, 360000) - 180000))

normalizeLng(value) ==
  LET normalized == JsRem(JsRem(value + 180000, 360000) + 360000, 360000) - 180000
  IN  MathMax(-180000, MathMin(180000, normalized))

\* The fields of a parsed JSON value that hold null: they are listed in its
\* field nulls. A field that holds a number is a field of the record; a field
\* that is absent, or holds a string that is not a number, is left out.
NullFields(msg) == IF "nulls" \in DOMAIN msg THEN msg.nulls ELSE {}

\* Number.isFinite(Number(msg.field)): Number(null) is 0, Number(undefined) is NaN.
IsFiniteField(msg, field) == field \in DOMAIN msg \/ field \in NullFields(msg)

\* Number(msg.field) of a field that IsFiniteField accepts.
NumberField(msg, field) == IF field \in DOMAIN msg THEN msg[field] ELSE 0

\* ------------------------------------------------------------------- state

VARIABLES
  \* MarkerQueryCoordinator
  markers,               \* useState markers: the fetched marker list
  error,                 \* useState error
  loading,               \* useState loading
  hasLoadedMarkersRef,   \* useRef(false)
  markerQuerySeqRef,     \* useRef(0)
  visibleCats,           \* useState visibleCats: category -> shown
  mapBounds,             \* useState mapBounds: ViewportBounds or null
  inflight,              \* the loads awaiting their responses, with their queries
  lastLoadEmpty,         \* history: the most recent load() had no categories
  anyFailed,             \* history: some viewport query has failed
  lastDone,              \* history: sequence number of the load that completed last
  \* ViewportStore
  mapViewport,           \* useState mapViewport: the camera
  restoredViewportRef,   \* useRef(null): the camera restored from storage
  sessionRestored,       \* useState sessionRestored
  storedViewport,        \* AsyncStorage, key MAP_VIEWPORT_STORAGE_KEY
  persistTimer,          \* the 450 ms timer of the camera persistence effect
  tileProvider,          \* useState tileProvider
  \* LocationArbiter and startup camera
  platform,              \* Platform.OS
  isActive,              \* prop isActive
  mapReady,              \* useState mapReady
  locationPermissionGranted,
  userLocation,          \* useState userLocation: a fix or null
  nativeLocateInFlightRef,
  nativeCalls,           \* getCurrentPosition calls the native module has not settled
  fallbackAge,           \* Date.now() - nativeFallbackCooldownRef.current, in ticks, capped
  startupCameraAppliedRef,
  startupCameras,        \* the startup camera commands sent to the renderer
  lastSetView,           \* the last __rnSetView command sent, with a per-command toggle
  watchdogTimer,         \* the 1800 ms timer of the startup watchdog effect
  nativeStartTimer,      \* the 1800 ms timer of the startup native-location effect
  notice,                \* useState notice: the last notice shown
  lastNativeReturn,      \* history: how the last requestNativeCurrentLocation call began
  \* The bridge, the component's life, the renderer
  lastDrop,              \* history: how handleWebMessage left the last payload it did not dispatch
  lastMoveEnd,           \* history: the last moveend message handled
  pendingChanges,        \* history: camera changes the pending persistence timer stands for
  lastWriteChanges,      \* history: camera changes the last storage write stood for
  mounted,               \* MapScreen is mounted
  appStateRef,           \* useRef(AppState.currentState): active, inactive or background
  osPermission,          \* the location permission the user has given the app in the OS
  rendererBooted,        \* the page in the WebView has run its script (it posted mapReady)
  webUserLocation,       \* the last user-location command the page in the WebView received
  mapInitView,           \* useState mapInitView: the camera written into the page's html
  webRendered,           \* the last __rnRenderMarkers command the page in the WebView received
  \* The marker draft and its submit
  isLoggedIn,            \* useAuth().isLoggedIn
  draft,                 \* useState draft: the DraftMarker being edited, or null
  editingId,             \* useState editingId: the id of the marker under edit, or null
  draftImageFile,        \* useState draftImageFile: an image is attached
  savingDraft,           \* useState savingDraft
  timeFixHint,           \* useState timeFixHint: the correction hint shown, or none
  submitCall,            \* the saveDraft call awaiting a response, with what it captured
  requests,              \* history: the requests the last saveDraft call has issued
  addMode,               \* useState addMode
  user,                  \* useAuth().user?.publicId, or none
  canDeleteDraft,        \* useState canDeleteDraft
  deleteConfirmOpen,     \* useState deleteConfirmOpen
  deletingMarker,        \* useState deletingMarker
  draftOwner,            \* history: userPublicId of the marker under edit, or none
  lastDelete,            \* history: the last DELETE request, with owner and user then
  draftPosts,            \* history: answered POST /api/markers since the draft was opened
  nearbyLoading,         \* useState nearbyLoading
  nearbyOnly,            \* useState nearbyOnly
  nearbyIds,             \* useState nearbyIds
  promises,              \* the promises of getCurrentPosition: calls of resolve or reject
  requestInFlight,       \* NativeLocation (iOS) requestInFlight
  resolveBlock,          \* NativeLocation (iOS) resolveBlock: a promise, or 0 for nil
  rejectBlock,           \* NativeLocation (iOS) rejectBlock: a promise, or 0 for nil
  timeoutWorkItem,       \* NativeLocation (iOS) timeoutWorkItem is set and not cancelled
  authorizationStatus,   \* CLLocationManager authorization status
  locationRequested,     \* CLLocationManager has a requestLocation() to answer
  androidRequests        \* NativeLocationModule (Android): requestSingleLocation calls

loadVars ==
  <<markers, error, loading, hasLoadedMarkersRef, markerQuerySeqRef, visibleCats,
    mapBounds, inflight, lastLoadEmpty, anyFailed, lastDone>>
viewVars ==
  <<mapViewport, restoredViewportRef, sessionRestored, storedViewport, persistTimer,
    tileProvider>>
locVars ==
  <<platform, isActive, mapReady, locationPermissionGranted, userLocation,
    nativeLocateInFlightRef, nativeCalls, fallbackAge, startupCameraAppliedRef,
    startupCameras, lastSetView, watchdogTimer, nativeStartTimer, notice,
    lastNativeReturn>>
bridgeVars == <<lastDrop, lastMoveEnd>>
persistHist == <<pendingChanges, lastWriteChanges>>
lifeVars == <<mounted, appStateRef, osPermission>>
webVars == <<rendererBooted, webUserLocation, mapInitView>>
extVars == <<bridgeVars, persistHist, lifeVars, webVars>>
nearbyVars == <<nearbyLoading, nearbyOnly, nearbyIds>>
moduleVars ==
  <<promises, requestInFlight, resolveBlock, rejectBlock, timeoutWorkItem,
    authorizationStatus, locationRequested, androidRequests>>
deleteVars ==
  <<addMode, user, canDeleteDraft, deleteConfirmOpen, deletingMarker, draftOwner,
    lastDelete, draftPosts, nearbyVars, moduleVars>>
draftVars ==
  <<isLoggedIn, draft, editingId, draftImageFile, savingDraft, timeFixHint, submitCall,
    requests, deleteVars>>
vars == <<loadVars, viewVars, locVars, extVars, webRendered, draftVars>>

\* ------------------------------------------------- MarkerQueryCoordinator

\* selectedVisibleCategories: the supported categories that are switched on.
selectedVisibleCategories(cats) == SelectSeq(supportedCategories, LAMBDA c : cats[c])

\* The request of fetchViewportSegment(minLng, maxLng) for these bounds.
fetchViewportSegment(bounds, minLng, maxLng, categories) ==
  [minLat |-> bounds.minLat, maxLat |-> bounds.maxLat,
   minLng |-> minLng, maxLng |-> maxLng, categories |-> categories]

\* A wrapping box queried as it stands: the split at the anti-meridian left out.
ViewportQueriesUnsplit(bounds, categories) ==
  IF bounds.wholeWorld
  THEN <<fetchViewportSegment(bounds, -180000, 180000, categories)>>
  ELSE <<fetchViewportSegment(bounds, bounds.minLng, bounds.maxLng, categories)>>

\* The queries one load issues: one, or two for a box across the anti-meridian.
ViewportQueries(bounds, categories) ==
  IF bounds.wholeWorld
  THEN <<fetchViewportSegment(bounds, -180000, 180000, categories)>>
  ELSE IF ~bounds.wrapsAntimeridian /\ bounds.minLng <= bounds.maxLng
  THEN <<fetchViewportSegment(bounds, bounds.minLng, bounds.maxLng, categories)>>
  ELSE <<fetchViewportSegment(bounds, bounds.minLng, 180000, categories),
         fetchViewportSegment(bounds, -180000, bounds.maxLng, categories)>>

\* The fast path of a load without categories.
IsEmptyLoadNever(categories) == FALSE
IsEmptyLoad(categories) == Len(categories) = 0

\* normalizeCategory(marker.category): a supported category, or self_definition.
normalizeCategory(item) ==
  IF "category" \in DOMAIN item
       /\ item.category \in {supportedCategories[i] : i \in 1..Len(supportedCategories)}
  THEN item.category
  ELSE "self_definition"

\* normalizeMarkers: the items with a finite id, each as a marker. seq and
\* slice record the response the marker came in: they stand for its content.
normalizeMarkers(raw, seq, slice) ==
  LET valid == SelectSeq(raw, LAMBDA item : "id" \in DOMAIN item)
  IN  [i \in 1..Len(valid) |->
         [id |-> valid[i].id, category |-> normalizeCategory(valid[i]),
          seq |-> seq, slice |-> slice]]

\* mergedById.set(marker.id, marker) over the list, then Array.from(values()):
\* a Map keeps a key at the place of its first insertion and its last value.
RECURSIVE MapSetAll(_, _)
MapSetAll(list, acc) ==
  IF list = <<>> THEN acc
  ELSE LET m == Head(list)
           at == {i \in 1..Len(acc) : acc[i].id = m.id}
       IN  IF at = {} THEN MapSetAll(Tail(list), Append(acc, m))
           ELSE MapSetAll(Tail(list), [acc EXCEPT ![CHOOSE i \in at : TRUE] = m])

\* mergedMarkers of a load whose queries answered with these payloads.
mergedMarkers(load, payloads) ==
  IF Len(load.queries) = 1
  THEN normalizeMarkers(payloads[1], load.seq, 1)
  ELSE MapSetAll(normalizeMarkers(payloads[1], load.seq, 1)
                   \o normalizeMarkers(payloads[2], load.seq, 2), <<>>)

\* seq !== markerQuerySeqRef.current, negated: the response is of the newest load.
IsCurrentAlways(seq) == TRUE
IsCurrent(seq) == seq = markerQuerySeqRef

\* loadMarkersInViewport(bounds, categories) up to its await.
loadMarkersInViewport(bounds, categories) ==
  IF IsEmptyLoad(categories)
  THEN /\ markers' = <<>>
       /\ error' = ""
       /\ hasLoadedMarkersRef' = TRUE
       /\ loading' = IF ~hasLoadedMarkersRef THEN FALSE ELSE loading
       /\ lastLoadEmpty' = TRUE
       /\ UNCHANGED <<markerQuerySeqRef, inflight>>
  ELSE /\ markerQuerySeqRef < MaxSeq
       /\ Cardinality(inflight) < MaxInFlight
       /\ markerQuerySeqRef' = markerQuerySeqRef + 1
       /\ loading' = IF ~hasLoadedMarkersRef THEN TRUE ELSE loading
       /\ inflight' = inflight \cup
            {[seq |-> markerQuerySeqRef + 1, queries |-> ViewportQueries(bounds, categories)]}
       /\ lastLoadEmpty' = FALSE
       /\ UNCHANGED <<markers, error, hasLoadedMarkersRef>>

\* The filter of filteredMarkers with ownerFilter 'all': the markers of the
\* categories shown and, with nearbyOnly on, of the ids of the last search.
FilteredBy(list, cats, only, ids) ==
  SelectSeq(list, LAMBDA m : cats[m.category] /\ (only => m.id \in ids))

\* filteredMarkers (and webMarkers, which maps it one to one).
filteredMarkers(list, cats) == FilteredBy(list, cats, nearbyOnly, nearbyIds)

\* The __rnRenderMarkers commands: none received by this page yet, or a list.
NoRender == [sent |-> FALSE, list |-> <<>>]
RenderCommand(list) == [sent |-> TRUE, list |-> list]

\* The renderMarkers effect after a commit with mapReady r and webMarkers
\* list: it runs when one of the two changed and injects when r holds. A page
\* whose script has not run (booted is false) has received nothing.
RenderMarkersEffect(r, list, booted, shown) ==
  IF ~booted THEN NoRender
  ELSE IF r /\ (~mapReady \/ list # filteredMarkers(markers, visibleCats))
       THEN RenderCommand(list)
       ELSE shown

RenderMarkersStep ==
  webRendered' = RenderMarkersEffect(mapReady', filteredMarkers(markers', visibleCats'),
                                     rendererBooted', webRendered)

\* The mapReady branch of handleWebMessage injects __rnRenderMarkers itself.
MapReadyRenderByEffect(list) == RenderMarkersEffect(TRUE, list, TRUE, webRendered)

MapReadyRender(list) == RenderCommand(list)

\* The viewport load effect: it runs when mapBounds or the categories change.
ViewportLoadEffect(bounds, cats) ==
  IF IsNull(bounds)
  THEN UNCHANGED <<markers, error, loading, hasLoadedMarkersRef, markerQuerySeqRef,
                   inflight, lastLoadEmpty>>
  ELSE loadMarkersInViewport(bounds, selectedVisibleCategories(cats))

\* The responses of a load arrive (Promise.all resolves): the rest of
\* loadMarkersInViewport after its await, the finally block included.
QuerySuccess(load, payloads) ==
  /\ load \in inflight
  /\ inflight' = inflight \ {load}
  /\ lastDone' = load.seq
  /\ IF IsCurrent(load.seq)
     THEN /\ markers' = mergedMarkers(load, payloads)
          /\ error' = ""
     ELSE UNCHANGED <<markers, error>>
  /\ IF load.seq = markerQuerySeqRef /\ ~hasLoadedMarkersRef
     THEN hasLoadedMarkersRef' = TRUE /\ loading' = FALSE
     ELSE UNCHANGED <<hasLoadedMarkersRef, loading>>
  /\ UNCHANGED <<markerQuerySeqRef, visibleCats, mapBounds, lastLoadEmpty, anyFailed>>
  /\ UNCHANGED <<viewVars, locVars>>
  /\ UNCHANGED extVars
  /\ RenderMarkersStep
  /\ UNCHANGED draftVars

\* A query of the load fails (Promise.all rejects): the catch and finally blocks.
QueryFailure(load) ==
  /\ load \in inflight
  /\ inflight' = inflight \ {load}
  /\ lastDone' = load.seq
  /\ anyFailed' = TRUE
  /\ IF IsCurrent(load.seq)
     THEN error' = "load failed"
     ELSE UNCHANGED error
  /\ IF load.seq = markerQuerySeqRef /\ ~hasLoadedMarkersRef
     THEN hasLoadedMarkersRef' = TRUE /\ loading' = FALSE
     ELSE UNCHANGED <<hasLoadedMarkersRef, loading>>
  /\ UNCHANGED <<markers, markerQuerySeqRef, visibleCats, mapBounds, lastLoadEmpty>>
  /\ UNCHANGED <<viewVars, locVars>>
  /\ UNCHANGED extVars
  /\ RenderMarkersStep
  /\ UNCHANGED draftVars

\* toggleCategory(key), with the viewport load effect.
toggleCategory(key) ==
  /\ visibleCats' = [visibleCats EXCEPT ![key] = ~visibleCats[key]]
  /\ ViewportLoadEffect(mapBounds, visibleCats')
  /\ UNCHANGED <<mapBounds, anyFailed, lastDone>>
  /\ UNCHANGED <<viewVars, locVars>>
  /\ UNCHANGED extVars
  /\ RenderMarkersStep
  /\ UNCHANGED draftVars

\* setAllCategoriesVisible(visible), with the viewport load effect.
setAllCategoriesVisible(visible) ==
  /\ visibleCats' = [c \in DOMAIN visibleCats |-> visible]
  /\ ViewportLoadEffect(mapBounds, visibleCats')
  /\ UNCHANGED <<mapBounds, anyFailed, lastDone>>
  /\ UNCHANGED <<viewVars, locVars>>
  /\ UNCHANGED extVars
  /\ RenderMarkersStep
  /\ UNCHANGED draftVars

\* ------------------------------------------------------------ ViewportStore

\* JSON.stringify of a camera, and the other strings the storage may hold.
JsonOf(value) == [kind |-> "json", value |-> value]
AbsentRaw == [kind |-> "absent"]

\* parseStoredViewport(raw): null for no string, for a string that is not JSON
\* (JSON.parse throws), for JSON null (reading a field of it throws), for a
\* JSON scalar or array (its latitude is undefined) and for an object whose
\* Number(latitude) or Number(longitude) is not finite.
parseStoredViewport(raw) ==
  IF raw.kind # "json" THEN Null
  ELSE LET parsed == raw.value
       IN  IF ~IsFiniteField(parsed, "latitude") \/ ~IsFiniteField(parsed, "longitude")
           THEN Null
           ELSE [latitude |-> clampLat(NumberField(parsed, "latitude")),
                 longitude |-> normalizeLng(NumberField(parsed, "longitude")),
                 zoom |-> IF IsFiniteField(parsed, "zoom")
                          THEN MathMax(MinZoom, MathMin(MaxZoom, NumberField(parsed, "zoom")))
                          ELSE DefaultStoredZoom]

\* The camera a moveend message leaves in mapViewport.
MoveEndCamera(msg) ==
  IF IsFiniteField(msg, "latitude") /\ IsFiniteField(msg, "longitude")
     /\ IsFiniteField(msg, "zoom")
  THEN [latitude |-> NumberField(msg, "latitude"),
        longitude |-> normalizeLng(NumberField(msg, "longitude")),
        zoom |-> NumberField(msg, "zoom")]
  ELSE mapViewport

\* Whether a moveend message carries the four edges.
HasEdges(msg) ==
  /\ IsFiniteField(msg, "south") /\ IsFiniteField(msg, "north")
  /\ IsFiniteField(msg, "west") /\ IsFiniteField(msg, "east")

\* The bounds with the span taken as east - west, without Math.abs.
MoveEndBoundsSigned(south, north, west, east) ==
  LET minLat == clampLat(MathMin(south, north))
      maxLat == clampLat(MathMax(south, north))
  IN  IF east - west >= WholeWorldSpan
      THEN [minLat |-> minLat, maxLat |-> maxLat, minLng |-> -180000, maxLng |-> 180000,
            wrapsAntimeridian |-> FALSE, wholeWorld |-> TRUE]
      ELSE [minLat |-> minLat, maxLat |-> maxLat,
            minLng |-> normalizeLng(west), maxLng |-> normalizeLng(east),
            wrapsAntimeridian |-> normalizeLng(west) > normalizeLng(east),
            wholeWorld |-> FALSE]

\* The bounds that never wrap.
MoveEndBoundsNoWrap(south, north, west, east) ==
  LET minLat == clampLat(MathMin(south, north))
      maxLat == clampLat(MathMax(south, north))
  IN  IF MathAbs(east - west) >= WholeWorldSpan
      THEN [minLat |-> minLat, maxLat |-> maxLat, minLng |-> -180000, maxLng |-> 180000,
            wrapsAntimeridian |-> FALSE, wholeWorld |-> TRUE]
      ELSE [minLat |-> minLat, maxLat |-> maxLat,
            minLng |-> MathMin(normalizeLng(west), normalizeLng(east)),
            maxLng |-> MathMax(normalizeLng(west), normalizeLng(east)),
            wrapsAntimeridian |-> FALSE, wholeWorld |-> FALSE]

\* The ViewportBounds of the edges of a moveend message.
MoveEndBounds(south, north, west, east) ==
  LET minLat == clampLat(MathMin(south, north))
      maxLat == clampLat(MathMax(south, north))
      lngSpan == MathAbs(east - west)
  IN  IF lngSpan >= WholeWorldSpan
      THEN [minLat |-> minLat, maxLat |-> maxLat, minLng |-> -180000, maxLng |-> 180000,
            wrapsAntimeridian |-> FALSE, wholeWorld |-> TRUE]
      ELSE [minLat |-> minLat, maxLat |-> maxLat,
            minLng |-> normalizeLng(west), maxLng |-> normalizeLng(east),
            wrapsAntimeridian |-> normalizeLng(west) > normalizeLng(east),
            wholeWorld |-> FALSE]

\* The camera persistence effect: when the camera or sessionRestored changes,
\* the pending timer is cleared and, once the session is restored, armed anew.
PersistEffectNoRestart(viewport, restored) ==
  IF viewport = mapViewport /\ restored = sessionRestored THEN persistTimer
  ELSE IF restored THEN (IF persistTimer >= 0 THEN persistTimer ELSE PersistTicks)
  ELSE TimerOff

\* The same effect without its test of sessionRestored.
PersistEffectUnrestored(viewport, restored) ==
  IF viewport = mapViewport /\ restored = sessionRestored THEN persistTimer
  ELSE PersistTicks

PersistEffect(viewport, restored) ==
  IF viewport = mapViewport /\ restored = sessionRestored THEN persistTimer
  ELSE IF restored THEN PersistTicks
  ELSE TimerOff

\* The runs of the persistence effect since the last write: each clears the
\* timer of the run before it and sets its own.
PersistChanges(viewport, restored) ==
  IF viewport = mapViewport /\ restored = sessionRestored THEN pendingChanges
  ELSE IF restored THEN MathMin(pendingChanges + 1, MaxBurst)
  ELSE 0

\* What the persistence timer writes.
PersistPayload ==
  [latitude |-> clampLat(mapViewport.latitude),
   longitude |-> normalizeLng(mapViewport.longitude),
   zoom |-> MathMax(MinZoom, MathMin(MaxZoom, mapViewport.zoom))]

\* The persistence timer fires: AsyncStorage.setItem of the camera.
PersistFire ==
  /\ persistTimer = 0
  /\ persistTimer' = TimerOff
  /\ storedViewport' = JsonOf(PersistPayload)
  /\ UNCHANGED <<mapViewport, restoredViewportRef, sessionRestored, tileProvider>>
  /\ UNCHANGED <<loadVars, locVars>>
  /\ lastWriteChanges' = pendingChanges
  /\ pendingChanges' = 0
  /\ UNCHANGED <<bridgeVars, lifeVars, webVars>>
  /\ RenderMarkersStep
  /\ UNCHANGED draftVars

\* handleWebMessage, type moveend: the camera, the bounds, and the effects
\* that follow (camera persistence, viewport load).
MoveEnd(msg) ==
  /\ mapViewport' = MoveEndCamera(msg)
  /\ persistTimer' = PersistEffect(mapViewport', sessionRestored)
  /\ IF HasEdges(msg)
     THEN /\ mapBounds' = MoveEndBounds(NumberField(msg, "south"), NumberField(msg, "north"),
                                        NumberField(msg, "west"), NumberField(msg, "east"))
          /\ ViewportLoadEffect(mapBounds', visibleCats)
     ELSE UNCHANGED <<mapBounds, markers, error, loading, hasLoadedMarkersRef,
                      markerQuerySeqRef, inflight, lastLoadEmpty>>
  /\ UNCHANGED <<visibleCats, anyFailed, lastDone>>
  /\ UNCHANGED <<restoredViewportRef, sessionRestored, storedViewport, tileProvider>>
  /\ UNCHANGED locVars
  /\ lastMoveEnd' = msg
  /\ pendingChanges' = PersistChanges(mapViewport', sessionRestored)
  /\ UNCHANGED <<lastDrop, lastWriteChanges, lifeVars, webVars>>
  /\ RenderMarkersStep
  /\ UNCHANGED draftVars

\* ------------------------------------------- LocationArbiter, startup camera

\* injectJs of window.__rnSetView(latitude, longitude, zoom); n tells one
\* command from the next one with the same target.
SetViewCmd(prev, target) ==
  [latitude |-> target.latitude, longitude |-> target.longitude,
   zoom |-> target.zoom, n |-> (prev.n + 1) % 4]

\* The camera on a fix, at the zoom of a user-location view.
UserCamera(fix) ==
  [latitude |-> fix.latitude, longitude |-> fix.longitude, zoom |-> UserZoom]

\* applyStartupCamera that forgets to set startupCameraAppliedRef.
applyStartupCameraUnmarked(applied, cameras, setView, target) ==
  IF applied THEN [applied |-> applied, cameras |-> cameras, setView |-> setView]
  ELSE [applied |-> FALSE, cameras |-> Append(cameras, target),
        setView |-> SetViewCmd(setView, target)]

\* applyStartupCamera(target), on the ref, the startup commands sent so far
\* and the last __rnSetView command.
applyStartupCamera(applied, cameras, setView, target) ==
  IF applied THEN [applied |-> applied, cameras |-> cameras, setView |-> setView]
  ELSE [applied |-> TRUE, cameras |-> Append(cameras, target),
        setView |-> SetViewCmd(setView, target)]

\* The startup effect of a fix: with the screen active, the map ready and the
\* session restored, the first known fix becomes the startup camera.
StartupFixEffect(a, r, s, u, st) ==
  IF a /\ r /\ s /\ ~st.applied /\ ~IsNull(u)
  THEN applyStartupCamera(st.applied, st.cameras, st.setView, UserCamera(u))
  ELSE st

\* The watchdog effect without its setTimeout.
WatchdogEffectOff(a, r, s, u, applied) == TimerOff

\* The startup watchdog effect: its timer after the effect has run again.
WatchdogEffect(a, r, s, u, applied) ==
  IF a /\ r /\ s /\ ~applied /\ IsNull(u) THEN WatchdogTicks ELSE TimerOff

\* The fallback that passes over the restored camera.
StartupFallbackDefault == INITIAL_VIEW
\* restoredViewportRef.current ?? INITIAL_VIEW
StartupFallback ==
  IF IsNull(restoredViewportRef) THEN INITIAL_VIEW ELSE restoredViewportRef

\* The startup native-location effect: its timer after the effect has run again.
NativeStartEffect(a, p, u) ==
  IF a /\ p /\ IsNull(u) THEN NativeStartTicks ELSE TimerOff

\* The effects that depend on isActive, mapReady, sessionRestored, userLocation
\* and locationPermissionGranted, run with the values a handler has set; uSet
\* says that setUserLocation was called, sv is the last __rnSetView command
\* after the handler.
LocationEffects(a, r, s, u, uSet, p, sv) ==
  LET startupChanged == a # isActive \/ r # mapReady \/ s # sessionRestored \/ uSet
      nativeChanged == a # isActive \/ p # locationPermissionGranted \/ uSet
      st0 == [applied |-> startupCameraAppliedRef, cameras |-> startupCameras,
              setView |-> sv]
      st1 == IF startupChanged THEN StartupFixEffect(a, r, s, u, st0) ELSE st0
  IN  /\ startupCameraAppliedRef' = st1.applied
      /\ startupCameras' = st1.cameras
      /\ lastSetView' = st1.setView
      /\ watchdogTimer' = IF startupChanged
                          THEN WatchdogEffect(a, r, s, u, st1.applied)
                          ELSE watchdogTimer
      /\ nativeStartTimer' = IF nativeChanged
                             THEN NativeStartEffect(a, p, u)
                             ELSE nativeStartTimer

\* if (nativeLocateInFlightRef.current) return false, left out.
\* The user-location commands: none received by this page yet,
\* __rnClearUserLocation(), __rnSetUserLocation(lat, lng, avatar).
NoCommand == [cmd |-> "none"]
UserLocationCommand(u) ==
  IF IsNull(u) THEN [cmd |-> "clear"]
  ELSE [cmd |-> "set", latitude |-> u.latitude, longitude |-> u.longitude]

\* The user-location push effect after a commit with mapReady r and
\* userLocation u (uSet: setUserLocation was called, with a new object): it
\* runs when one of the two changed and injects its command when r holds. The
\* command reaches the page when its script has run (booted); shown is the
\* last command the page had received.
UserLocationPush(r, u, uSet, booted, shown) ==
  IF (r # mapReady \/ uSet) /\ r /\ booted THEN UserLocationCommand(u) ELSE shown

InFlightGuardOff == FALSE
\* if (nativeLocateInFlightRef.current) return false
InFlightGuard == nativeLocateInFlightRef

\* How a call of requestNativeCurrentLocation begins: refused without the
\* permission, busy while a request is in flight, started otherwise.
RequestNativeReturn ==
  IF ~locationPermissionGranted THEN "refused"
  ELSE IF InFlightGuard THEN "busy"
  ELSE "started"

\* requestNativeCurrentLocation(call) up to its await.
requestNativeCurrentLocation(call) ==
  /\ lastNativeReturn' = RequestNativeReturn
  /\ IF RequestNativeReturn = "started"
     THEN /\ nativeLocateInFlightRef' = TRUE
          /\ nativeCalls' = Append(nativeCalls, call)
     ELSE UNCHANGED <<nativeLocateInFlightRef, nativeCalls>>

\* The notice of a geoError whose native fallback gave no fix.
GeoNotice(detail) ==
  IF detail = "Only secure origins are allowed" THEN "geo-insecure"
  ELSE IF detail # "" THEN "geo-detail"
  ELSE "geo-generic"

\* now - nativeFallbackCooldownRef.current < 1800, with a cooldown of 900 ms.
CooldownActiveShort(age) == age < CooldownTicks - 2
\* now - nativeFallbackCooldownRef.current < 1800
CooldownActive(age) == age < CooldownTicks

\* handleWebMessage, type geoError.
GeoError(detail) ==
  /\ IF locationPermissionGranted /\ ~CooldownActive(fallbackAge)
     THEN /\ fallbackAge' = 0
          /\ requestNativeCurrentLocation(
               [recenter |-> FALSE, origin |-> "geoError", detail |-> detail])
          /\ notice' = IF RequestNativeReturn = "started" THEN notice
                       ELSE GeoNotice(detail)
     ELSE UNCHANGED <<fallbackAge, lastNativeReturn, nativeLocateInFlightRef,
                      nativeCalls, notice>>
  /\ UNCHANGED <<platform, isActive, mapReady, locationPermissionGranted, userLocation,
                 startupCameraAppliedRef, startupCameras, lastSetView, watchdogTimer,
                 nativeStartTimer>>
  /\ UNCHANGED <<loadVars, viewVars>>
  /\ UNCHANGED extVars
  /\ RenderMarkersStep
  /\ UNCHANGED draftVars

\* The timer of the startup native-location effect fires.
NativeStartFire ==
  /\ nativeStartTimer = 0
  /\ nativeStartTimer' = TimerOff
  /\ requestNativeCurrentLocation([recenter |-> FALSE, origin |-> "startup", detail |-> ""])
  /\ UNCHANGED <<platform, isActive, mapReady, locationPermissionGranted, userLocation,
                 fallbackAge, startupCameraAppliedRef, startupCameras, lastSetView,
                 watchdogTimer, notice>>
  /\ UNCHANGED <<loadVars, viewVars>>
  /\ UNCHANGED extVars
  /\ RenderMarkersStep
  /\ UNCHANGED draftVars

\* recenterToUserLocation
recenterToUserLocation ==
  /\ IF ~locationPermissionGranted
     THEN /\ notice' = "need-permission"
          /\ UNCHANGED <<lastNativeReturn, nativeLocateInFlightRef, nativeCalls,
                          lastSetView>>
     ELSE IF IsNull(userLocation)
     THEN /\ requestNativeCurrentLocation(
               [recenter |-> TRUE, origin |-> "recenter", detail |-> ""])
          /\ notice' = IF RequestNativeReturn = "started" THEN notice
                       ELSE "recenter-unavailable"
          /\ UNCHANGED lastSetView
     ELSE /\ lastSetView' = SetViewCmd(lastSetView, UserCamera(userLocation))
          /\ UNCHANGED <<lastNativeReturn, nativeLocateInFlightRef, nativeCalls, notice>>
  /\ UNCHANGED <<platform, isActive, mapReady, locationPermissionGranted, userLocation,
                 fallbackAge, startupCameraAppliedRef, startupCameras, watchdogTimer,
                 nativeStartTimer>>
  /\ UNCHANGED <<loadVars, viewVars>>
  /\ UNCHANGED extVars
  /\ RenderMarkersStep
  /\ UNCHANGED draftVars

\* nativeLocateInFlightRef.current after the request settled: the finally
\* block releases it for a fix, for invalid coordinates and for an error.
InFlightAfterSettleTryOnly(outcome) == outcome.kind # "fix"

InFlightAfterSettle(outcome) == FALSE

\* nativeCode === 'LOCATION_PERMISSION_DENIED' in the catch block.
IsPermissionDeniedNever(outcome) == FALSE

IsPermissionDenied(outcome) ==
  outcome.kind = "error" /\ outcome.code = "LOCATION_PERMISSION_DENIED"

\* The native module settles call i: the rest of requestNativeCurrentLocation
\* (try, catch, finally), the continuation of its caller, and the effects.
NativeSettle(i, outcome) ==
  /\ i \in 1..Len(nativeCalls)
  /\ LET call == nativeCalls[i]
         ok == outcome.kind = "fix"
         fix == [latitude |-> outcome.latitude, longitude |-> outcome.longitude]
         denied == IsPermissionDenied(outcome)
         sv == IF ok /\ call.recenter
               THEN SetViewCmd(lastSetView, UserCamera(fix))
               ELSE lastSetView
     IN  /\ nativeCalls' = SubSeq(nativeCalls, 1, i - 1)
                             \o SubSeq(nativeCalls, i + 1, Len(nativeCalls))
         /\ nativeLocateInFlightRef' = InFlightAfterSettle(outcome)
         /\ userLocation' = IF ok THEN fix ELSE userLocation
         /\ locationPermissionGranted' =
              IF denied THEN FALSE ELSE locationPermissionGranted
         /\ notice' = IF ok \/ call.origin = "startup" THEN notice
                      ELSE IF call.origin = "geoError" THEN GeoNotice(call.detail)
                      ELSE "recenter-unavailable"
         /\ LocationEffects(isActive, mapReady, sessionRestored, userLocation', ok,
                            locationPermissionGranted', sv)
         /\ webUserLocation' = UserLocationPush(mapReady, userLocation', ok,
                                                rendererBooted, webUserLocation)
  /\ UNCHANGED <<platform, isActive, mapReady, fallbackAge, lastNativeReturn>>
  /\ UNCHANGED <<loadVars, viewVars>>
  /\ UNCHANGED <<bridgeVars, persistHist, lifeVars, rendererBooted, mapInitView>>
  /\ RenderMarkersStep
  /\ UNCHANGED draftVars

\* handleWebMessage, type userLocation, with a finite latitude and longitude.
UserLocationMsg(fix) ==
  /\ userLocation' = fix
  /\ LocationEffects(isActive, mapReady, sessionRestored, fix, TRUE,
                     locationPermissionGranted, lastSetView)
  /\ webUserLocation' = UserLocationPush(mapReady, fix, TRUE, rendererBooted,
                                         webUserLocation)
  /\ UNCHANGED <<platform, isActive, mapReady, locationPermissionGranted,
                 nativeLocateInFlightRef, nativeCalls, fallbackAge, notice,
                 lastNativeReturn>>
  /\ UNCHANGED <<loadVars, viewVars>>
  /\ UNCHANGED <<bridgeVars, persistHist, lifeVars, rendererBooted, mapInitView>>
  /\ RenderMarkersStep
  /\ UNCHANGED draftVars

\* handleWebMessage, type mapReady.
MapReadyMsg ==
  /\ mapReady' = TRUE
  /\ error' = ""
  /\ LocationEffects(isActive, TRUE, sessionRestored, userLocation, FALSE,
                     locationPermissionGranted, lastSetView)
  /\ UNCHANGED <<platform, isActive, locationPermissionGranted, userLocation,
                 nativeLocateInFlightRef, nativeCalls, fallbackAge, notice,
                 lastNativeReturn>>
  /\ rendererBooted' = TRUE
  /\ webUserLocation' = UserLocationPush(TRUE, userLocation, FALSE, TRUE, webUserLocation)
  /\ UNCHANGED <<markers, loading, hasLoadedMarkersRef, markerQuerySeqRef, visibleCats,
                 mapBounds, inflight, lastLoadEmpty, anyFailed, lastDone>>
  /\ UNCHANGED viewVars
  /\ UNCHANGED <<bridgeVars, persistHist, lifeVars, mapInitView>>
  /\ webRendered' = MapReadyRender(filteredMarkers(markers, visibleCats))
  /\ UNCHANGED draftVars

\* The guard at the head of handleWebMessage, by the text of the payload: text
\* that is not JSON (JSON.parse throws, the catch returns), JSON null (!msg),
\* a JSON number, string or boolean (!msg or typeof), a JSON array or an object
\* without a type field (no 'type' in it) are dropped; the rest is dispatched.
ParseGuardNoCatch(raw) ==
  IF raw.kind = "garbage" THEN "thrown"
  ELSE IF raw.kind # "json" THEN "dropped"
  ELSE IF "type" \notin DOMAIN raw.value THEN "dropped"
  ELSE "dispatch"

ParseGuard(raw) ==
  IF raw.kind = "garbage" THEN "dropped"
  ELSE IF raw.kind \in {"jsonnull", "jsonscalar", "jsonarray"} THEN "dropped"
  ELSE IF "type" \notin DOMAIN raw.value THEN "dropped"
  ELSE "dispatch"

\* typeof msg.message === 'string' ? msg.message.trim() : ''
GeoErrorDetail(msg) == IF "message" \in DOMAIN msg THEN msg.message ELSE ""

\* handleWebMessage(event): the guard, then the branch of the message's type.
\* mapPress in add mode opens a draft (openDraftAt below) and markerPress
\* changes the selection: the dispatcher leaves both out. A type the handler
\* does not know falls through.
handleWebMessage(raw) ==
  \/ /\ ParseGuard(raw) # "dispatch"
     /\ lastDrop' = [status |-> ParseGuard(raw), raw |-> raw, mapReady |-> mapReady]
     /\ UNCHANGED <<loadVars, viewVars, locVars>>
     /\ UNCHANGED <<lastMoveEnd, persistHist, lifeVars, webVars, webRendered, draftVars>>
  \/ /\ ParseGuard(raw) = "dispatch" /\ raw.value.type = "mapReady"
     /\ MapReadyMsg
  \/ /\ ParseGuard(raw) = "dispatch" /\ raw.value.type = "moveend"
     /\ MoveEnd(raw.value)
  \/ /\ ParseGuard(raw) = "dispatch" /\ raw.value.type = "userLocation"
     /\ IF IsFiniteField(raw.value, "latitude") /\ IsFiniteField(raw.value, "longitude")
        THEN UserLocationMsg([latitude |-> NumberField(raw.value, "latitude"),
                              longitude |-> NumberField(raw.value, "longitude")])
        ELSE UNCHANGED vars
  \/ /\ ParseGuard(raw) = "dispatch" /\ raw.value.type = "geoError"
     /\ GeoError(GeoErrorDetail(raw.value))
  \/ /\ ParseGuard(raw) = "dispatch" /\ raw.value.type = "leafletLoadFailed"
     /\ error' = "leaflet load failed"
     /\ UNCHANGED <<markers, loading, hasLoadedMarkersRef, markerQuerySeqRef, visibleCats,
                    mapBounds, inflight, lastLoadEmpty, anyFailed, lastDone>>
     /\ UNCHANGED <<viewVars, locVars, extVars, webRendered, draftVars>>
  \/ /\ ParseGuard(raw) = "dispatch"
     /\ raw.value.type \notin {"mapReady", "moveend", "userLocation", "geoError",
                               "leafletLoadFailed"}
     /\ UNCHANGED vars

\* The parent switches the isActive prop.
SetActive(active) ==
  /\ active # isActive
  /\ isActive' = active
  /\ LocationEffects(active, mapReady, sessionRestored, userLocation, FALSE,
                     locationPermissionGranted, lastSetView)
  /\ UNCHANGED <<platform, mapReady, locationPermissionGranted, userLocation,
                 nativeLocateInFlightRef, nativeCalls, fallbackAge, notice,
                 lastNativeReturn>>
  /\ UNCHANGED <<loadVars, viewVars>>
  /\ UNCHANGED extVars
  /\ RenderMarkersStep
  /\ UNCHANGED draftVars

\* setMapInitView(mapViewportRef.current) in the effect of a changed
\* activeTileProvider; the ref follows mapViewport.
TileInitViewKept == mapInitView
TileInitView == mapViewport

\* setTileProvider(key) with the effect of a changed activeTileProvider:
\* the renderer is created anew and is not ready.
setTileProvider(key) ==
  /\ key # tileProvider
  /\ tileProvider' = key
  /\ mapReady' = FALSE
  /\ LocationEffects(isActive, FALSE, sessionRestored, userLocation, FALSE,
                     locationPermissionGranted, lastSetView)
  /\ UNCHANGED <<platform, isActive, locationPermissionGranted, userLocation,
                 nativeLocateInFlightRef, nativeCalls, fallbackAge, notice,
                 lastNativeReturn>>
  /\ rendererBooted' = FALSE
  /\ webUserLocation' = NoCommand
  /\ mapInitView' = TileInitView
  /\ UNCHANGED <<mapViewport, restoredViewportRef, sessionRestored, storedViewport,
                 persistTimer>>
  /\ UNCHANGED loadVars
  /\ UNCHANGED <<bridgeVars, persistHist, lifeVars>>
  /\ RenderMarkersStep
  /\ UNCHANGED draftVars

\* syncLocationPermission(requestIfMissing) settles with ok: Android only
\* (no caller on another platform).
SyncPermission(requestIfMissing, ok) ==
  /\ locationPermissionGranted' = ok
  /\ notice' = IF requestIfMissing /\ ~ok THEN "permission-off" ELSE notice
  /\ LocationEffects(isActive, mapReady, sessionRestored, userLocation, FALSE, ok,
                     lastSetView)

syncLocationPermission(requestIfMissing, ok) ==
  /\ platform = "android"
  /\ SyncPermission(requestIfMissing, ok)
  /\ UNCHANGED <<platform, isActive, mapReady, userLocation, nativeLocateInFlightRef,
                 nativeCalls, fallbackAge, lastNativeReturn>>
  /\ UNCHANGED <<loadVars, viewVars>>
  /\ UNCHANGED extVars
  /\ RenderMarkersStep
  /\ UNCHANGED draftVars

\* The AppState listener: the app goes to nextState. Coming back to active
\* from inactive or background with the screen active, Android checks the
\* permission again (syncLocationPermission(false), then the page is asked for
\* its position); iOS only asks the page for its position.
AppStateChange(nextState) ==
  /\ nextState # appStateRef
  /\ appStateRef' = nextState
  /\ IF isActive /\ appStateRef \in {"inactive", "background"} /\ nextState = "active"
          /\ platform = "android"
     THEN SyncPermission(FALSE, osPermission)
     ELSE UNCHANGED <<locationPermissionGranted, notice, startupCameraAppliedRef,
                      startupCameras, lastSetView, watchdogTimer, nativeStartTimer>>
  /\ UNCHANGED <<platform, isActive, mapReady, userLocation, nativeLocateInFlightRef,
                 nativeCalls, fallbackAge, lastNativeReturn>>
  /\ UNCHANGED <<loadVars, viewVars>>
  /\ UNCHANGED <<bridgeVars, persistHist, webVars, mounted, osPermission>>
  /\ RenderMarkersStep
  /\ UNCHANGED draftVars

\* The user switches the app's location permission in the settings of the OS.
SetOsPermission(granted) ==
  /\ granted # osPermission
  /\ osPermission' = granted
  /\ UNCHANGED <<loadVars, viewVars, locVars>>
  /\ UNCHANGED <<bridgeVars, persistHist, webVars, mounted, appStateRef, webRendered,
                 draftVars>>

\* The startup watchdog timer fires.
WatchdogFire ==
  /\ watchdogTimer = 0
  /\ watchdogTimer' = TimerOff
  /\ LET st == applyStartupCamera(startupCameraAppliedRef, startupCameras,
                                  lastSetView, StartupFallback)
     IN  /\ startupCameraAppliedRef' = st.applied
         /\ startupCameras' = st.cameras
         /\ lastSetView' = st.setView
  /\ UNCHANGED <<platform, isActive, mapReady, locationPermissionGranted, userLocation,
                 nativeLocateInFlightRef, nativeCalls, fallbackAge, nativeStartTimer,
                 notice, lastNativeReturn>>
  /\ UNCHANGED <<loadVars, viewVars>>
  /\ UNCHANGED extVars
  /\ RenderMarkersStep
  /\ UNCHANGED draftVars

\* The session restore effect settles: the stored camera is read and parsed
\* (readOk), or the read fails; sessionRestored is set either way. A restored
\* camera becomes mapInitView: the html of the WebView changes with it and the
\* page is loaded anew, while mapReady keeps its value.
SessionRestore(readOk) ==
  /\ ~sessionRestored
  /\ LET saved == IF readOk THEN parseStoredViewport(storedViewport) ELSE Null
         reload == ~IsNull(saved) /\ saved # mapInitView
     IN  /\ restoredViewportRef' = IF IsNull(saved) THEN restoredViewportRef ELSE saved
         /\ mapViewport' = IF IsNull(saved) THEN mapViewport ELSE saved
         /\ mapInitView' = IF IsNull(saved) THEN mapInitView ELSE saved
         /\ rendererBooted' = IF reload THEN FALSE ELSE rendererBooted
         /\ webUserLocation' = IF reload THEN NoCommand ELSE webUserLocation
  /\ sessionRestored' = TRUE
  /\ persistTimer' = PersistEffect(mapViewport', TRUE)
  /\ LocationEffects(isActive, mapReady, TRUE, userLocation, FALSE,
                     locationPermissionGranted, lastSetView)
  /\ UNCHANGED <<storedViewport, tileProvider>>
  /\ UNCHANGED <<platform, isActive, mapReady, locationPermissionGranted, userLocation,
                 nativeLocateInFlightRef, nativeCalls, fallbackAge, notice,
                 lastNativeReturn>>
  /\ UNCHANGED loadVars
  /\ pendingChanges' = PersistChanges(mapViewport', TRUE)
  /\ UNCHANGED <<bridgeVars, lastWriteChanges, lifeVars>>
  /\ RenderMarkersStep
  /\ UNCHANGED draftVars

\* MapScreen is unmounted: the cleanup of every effect runs, which clears the
\* persistence timer, the watchdog timer and the native-location timer.
Unmount ==
  /\ mounted
  /\ mounted' = FALSE
  /\ UNCHANGED <<appStateRef, osPermission>>
  /\ persistTimer' = TimerOff
  /\ watchdogTimer' = TimerOff
  /\ nativeStartTimer' = TimerOff
  /\ UNCHANGED <<mapViewport, restoredViewportRef, sessionRestored, storedViewport,
                 tileProvider>>
  /\ UNCHANGED <<platform, isActive, mapReady, locationPermissionGranted, userLocation,
                 nativeLocateInFlightRef, nativeCalls, fallbackAge,
                 startupCameraAppliedRef, startupCameras, lastSetView, notice,
                 lastNativeReturn>>
  /\ UNCHANGED loadVars
  /\ UNCHANGED <<bridgeVars, persistHist, webVars>>
  /\ RenderMarkersStep
  /\ UNCHANGED draftVars

\* 450 ms pass. A timer that is due fires before more time passes.
TimerTick(t) == IF t > 0 THEN t - 1 ELSE t
Tick ==
  /\ persistTimer # 0 /\ watchdogTimer # 0 /\ nativeStartTimer # 0
  /\ persistTimer' = TimerTick(persistTimer)
  /\ watchdogTimer' = TimerTick(watchdogTimer)
  /\ nativeStartTimer' = TimerTick(nativeStartTimer)
  /\ fallbackAge' = MathMin(fallbackAge + 1, CooldownTicks)
  /\ UNCHANGED <<mapViewport, restoredViewportRef, sessionRestored, storedViewport,
                 tileProvider>>
  /\ UNCHANGED <<platform, isActive, mapReady, locationPermissionGranted, userLocation,
                 nativeLocateInFlightRef, nativeCalls, startupCameraAppliedRef,
                 startupCameras, lastSetView, notice, lastNativeReturn>>
  /\ UNCHANGED loadVars
  /\ UNCHANGED extVars
  /\ RenderMarkersStep
  /\ UNCHANGED draftVars

\* --------------------------------------------------------- the marker draft

\* Text is a sequence of characters. The decimal digits, in their order.
DigitChars == <<"0", "1", "2", "3", "4", "5", "6", "7", "8", "9">>
IsDigit(c) == \E i \in 1..10 : DigitChars[i] = c
DigitValue(c) == (CHOOSE i \in 1..10 : DigitChars[i] = c) - 1

\* text.trim(), the blank standing for white space.
RECURSIVE TrimStart(_)
TrimStart(text) ==
  IF text # <<>> /\ Head(text) = " " THEN TrimStart(Tail(text)) ELSE text
RECURSIVE TrimEnd(_)
TrimEnd(text) ==
  IF text # <<>> /\ text[Len(text)] = " "
  THEN TrimEnd(SubSeq(text, 1, Len(text) - 1))
  ELSE text
Trim(text) == TrimEnd(TrimStart(text))

\* Number(text) of a text of digits; Number('') is 0.
RECURSIVE NumberOfDigits(_)
NumberOfDigits(text) ==
  IF text = <<>> THEN 0
  ELSE NumberOfDigits(SubSeq(text, 1, Len(text) - 1)) * 10 + DigitValue(text[Len(text)])

\* String(n) of an integer n >= 0.
RECURSIVE StringOfNat(_)
StringOfNat(n) ==
  IF n < 10 THEN <<DigitChars[n + 1]>>
  ELSE Append(StringOfNat(n \div 10), DigitChars[(n % 10) + 1])

\* text.padStart(2, '0')
RECURSIVE padStart2(_)
padStart2(text) == IF Len(text) >= 2 THEN text ELSE padStart2(<<"0">> \o text)

\* value.replace(/\D/g, '').slice(0, 2)
TwoDigitsOf(value) ==
  LET digits == SelectSeq(value, IsDigit)
  IN  SubSeq(digits, 1, MathMin(2, Len(digits)))

\* /^\d{2}:\d{2}$/.test(value)
MatchesHHMM(value) ==
  /\ Len(value) = 5
  /\ IsDigit(value[1]) /\ IsDigit(value[2])
  /\ value[3] = ":"
  /\ IsDigit(value[4]) /\ IsDigit(value[5])

isValidHHMM(value) ==
  /\ MatchesHHMM(value)
  /\ LET hour == NumberOfDigits(SubSeq(value, 1, 2))
         minute == NumberOfDigits(SubSeq(value, 4, 5))
     IN  hour >= 0 /\ hour <= 23 /\ minute >= 0 /\ minute <= 59

\* splitHHMM(value) of a marker's openTimeStart or openTimeEnd; null is the
\* empty text here, both are falsy.
splitHHMM(value) ==
  IF value = <<>> \/ ~MatchesHHMM(value) THEN [hour |-> <<>>, minute |-> <<>>]
  ELSE [hour |-> SubSeq(value, 1, 2), minute |-> SubSeq(value, 4, 5)]

composeHHMM(hour, minute) ==
  IF hour = <<>> \/ minute = <<>> THEN <<>> ELSE hour \o <<":">> \o minute

\* The time fields of a DraftMarker.
TimeKeys == {"openStartHour", "openStartMinute", "openEndHour", "openEndMinute"}
IsHourKey(key) == key \in {"openStartHour", "openEndHour"}

\* A DraftMarker: its title and time fields. Position, category, description
\* and isPublic pass through a submit unread and are left out.
DraftMarker(title, start, end) ==
  [title |-> title,
   openStartHour |-> start.hour, openStartMinute |-> start.minute,
   openEndHour |-> end.hour, openEndMinute |-> end.minute]

\* useState timeFixHint: '' or the hint of a corrected field.
NoHint == [unit |-> "", normalized |-> <<>>]
TimeFixHint(key, normalized) ==
  [unit |-> IF IsHourKey(key) THEN "hour" ELSE "minute", normalized |-> normalized]

\* editingId holds null or a marker id; a number is wrapped to tell it from null.
IdOf(n) == [value |-> n]

\* user?.publicId and marker.userPublicId when there is none (null).
NoUser == "none"

\* resetDraftState()
resetDraftState ==
  /\ draft' = Null /\ editingId' = Null
  /\ draftImageFile' = FALSE /\ timeFixHint' = NoHint
  /\ canDeleteDraft' = TRUE /\ deleteConfirmOpen' = FALSE
  /\ draftOwner' = NoUser

\* The user logs in as publicId or logs out (useAuth), and the effect that
\* drops the draft and the add mode of a user who is logged out.
AuthChangeTo(loggedIn, publicId) ==
  /\ loggedIn # isLoggedIn
  /\ isLoggedIn' = loggedIn
  /\ user' = IF loggedIn THEN publicId ELSE NoUser
  /\ addMode' = IF ~loggedIn THEN FALSE ELSE addMode
  /\ IF ~loggedIn /\ ~IsNull(draft)
     THEN /\ draft' = Null /\ editingId' = Null
          /\ canDeleteDraft' = TRUE /\ deleteConfirmOpen' = FALSE
          /\ draftOwner' = NoUser
     ELSE UNCHANGED <<draft, editingId, canDeleteDraft, deleteConfirmOpen, draftOwner>>
  /\ UNCHANGED <<draftImageFile, savingDraft, timeFixHint, submitCall, requests,
                 deletingMarker, lastDelete>>
  /\ UNCHANGED <<loadVars, viewVars, locVars, extVars>>
  /\ UNCHANGED draftPosts
  /\ UNCHANGED <<nearbyVars, moduleVars>>
  /\ RenderMarkersStep

\* The user of this device logs in or out.
AuthChange(loggedIn) == AuthChangeTo(loggedIn, "u1")

\* openDraftAt(lat, lng), called by handleMapPress and handleAddButtonPress
\* for a user who is logged in: a draft for creation.
openDraftAt ==
  /\ isLoggedIn
  /\ timeFixHint' = NoHint
  /\ draftImageFile' = FALSE
  /\ draft' = DraftMarker(<<>>, [hour |-> <<>>, minute |-> <<>>],
                          [hour |-> <<>>, minute |-> <<>>])
  /\ editingId' = Null
  /\ canDeleteDraft' = TRUE /\ deleteConfirmOpen' = FALSE
  /\ addMode' = FALSE
  /\ draftOwner' = NoUser
  /\ notice' = "draft-opened"
  /\ UNCHANGED <<isLoggedIn, savingDraft, submitCall, requests, user, deletingMarker,
                 lastDelete>>
  /\ UNCHANGED <<platform, isActive, mapReady, locationPermissionGranted, userLocation,
                 nativeLocateInFlightRef, nativeCalls, fallbackAge,
                 startupCameraAppliedRef, startupCameras, lastSetView, watchdogTimer,
                 nativeStartTimer, lastNativeReturn>>
  /\ UNCHANGED <<loadVars, viewVars, extVars>>
  /\ draftPosts' = 0
  /\ UNCHANGED <<nearbyVars, moduleVars>>
  /\ RenderMarkersStep

\* user?.publicId != null && marker.userPublicId === user.publicId, and the
\* same taken as true for every user who is logged in.
CanDeleteAny(publicId, owner) == publicId # NoUser
CanDelete(publicId, owner) == publicId # NoUser /\ owner = publicId

\* openEditDraft(marker) of the marker panel: a draft for the edit of the
\* selected marker, which is one of filteredMarkers. The marker of this module
\* carries no owner, no title and no opening times: they are given beside it.
openEditDraftOf(marker, owner, title, openTimeStart, openTimeEnd) ==
  /\ \E i \in 1..Len(filteredMarkers(markers, visibleCats)) :
       filteredMarkers(markers, visibleCats)[i] = marker
  /\ IF ~isLoggedIn
     THEN /\ notice' = "login-to-edit"
          /\ UNCHANGED <<draft, editingId, draftImageFile, timeFixHint, canDeleteDraft,
                         deleteConfirmOpen, addMode, draftOwner>>
     ELSE /\ timeFixHint' = NoHint
          /\ draftImageFile' = FALSE
          /\ draft' = DraftMarker(title, splitHHMM(openTimeStart), splitHHMM(openTimeEnd))
          /\ editingId' = IdOf(marker.id)
          /\ canDeleteDraft' = CanDelete(user, owner)
          /\ deleteConfirmOpen' = FALSE
          /\ addMode' = FALSE
          /\ draftOwner' = owner
          /\ notice' = "edit-opened"
  /\ UNCHANGED <<isLoggedIn, savingDraft, submitCall, requests, user, deletingMarker,
                 lastDelete>>
  /\ UNCHANGED <<platform, isActive, mapReady, locationPermissionGranted, userLocation,
                 nativeLocateInFlightRef, nativeCalls, fallbackAge,
                 startupCameraAppliedRef, startupCameras, lastSetView, watchdogTimer,
                 nativeStartTimer, lastNativeReturn>>
  /\ UNCHANGED <<loadVars, viewVars, extVars>>
  /\ draftPosts' = IF isLoggedIn THEN 0 ELSE draftPosts
  /\ UNCHANGED <<nearbyVars, moduleVars>>
  /\ RenderMarkersStep

\* openEditDraft of a marker of the user of this device.
openEditDraft(marker, title, openTimeStart, openTimeEnd) ==
  openEditDraftOf(marker, "u1", title, openTimeStart, openTimeEnd)

\* onChangeText of the title field.
setDraftTitle(value) ==
  /\ ~IsNull(draft)
  /\ draft' = [draft EXCEPT !.title = value]
  /\ UNCHANGED <<isLoggedIn, editingId, draftImageFile, savingDraft, timeFixHint,
                 submitCall, requests, deleteVars>>
  /\ UNCHANGED <<loadVars, viewVars, locVars, extVars>>
  /\ RenderMarkersStep

\* setDraftTimePart(key, value)
setDraftTimePart(key, value) ==
  /\ ~IsNull(draft)
  /\ timeFixHint' = NoHint
  /\ draft' = [draft EXCEPT ![key] = TwoDigitsOf(value)]
  /\ UNCHANGED <<isLoggedIn, editingId, draftImageFile, savingDraft, submitCall, requests,
                 deleteVars>>
  /\ UNCHANGED <<loadVars, viewVars, locVars, extVars>>
  /\ RenderMarkersStep

\* The largest value of a time field.
TimePartMax(key) == IF IsHourKey(key) THEN 23 ELSE 59

\* The text normalizeDraftTimePartOnBlur leaves in a field that held current.
NormalizedTimePartNoClamp(key, current) ==
  IF current = <<>> THEN current ELSE padStart2(StringOfNat(NumberOfDigits(current)))

NormalizedTimePart(key, current) ==
  IF current = <<>> THEN current
  ELSE padStart2(StringOfNat(MathMax(0, MathMin(TimePartMax(key), NumberOfDigits(current)))))

\* normalizeDraftTimePartOnBlur(key), with showTimeFixHint.
normalizeDraftTimePartOnBlur(key) ==
  /\ ~IsNull(draft)
  /\ draft' = [draft EXCEPT ![key] = NormalizedTimePart(key, draft[key])]
  /\ timeFixHint' = IF draft[key] # <<>> /\ NumberOfDigits(draft[key]) > TimePartMax(key)
                    THEN TimeFixHint(key, NormalizedTimePart(key, draft[key]))
                    ELSE timeFixHint
  /\ UNCHANGED <<isLoggedIn, editingId, draftImageFile, savingDraft, submitCall, requests,
                 deleteVars>>
  /\ UNCHANGED <<loadVars, viewVars, locVars, extVars>>
  /\ RenderMarkersStep

\* The 2400 ms timer of showTimeFixHint fires.
TimeFixHintTimeout ==
  /\ timeFixHint # NoHint
  /\ timeFixHint' = NoHint
  /\ UNCHANGED <<isLoggedIn, draft, editingId, draftImageFile, savingDraft, submitCall,
                 requests, deleteVars>>
  /\ UNCHANGED <<loadVars, viewVars, locVars, extVars>>
  /\ RenderMarkersStep

\* pickDraftImage(), the picker's result given: a file, or none.
pickDraftImage(file) ==
  /\ ~IsNull(draft) /\ ~savingDraft
  /\ draftImageFile' = file
  /\ UNCHANGED <<isLoggedIn, draft, editingId, savingDraft, timeFixHint, submitCall,
                 requests, deleteVars>>
  /\ UNCHANGED <<loadVars, viewVars, locVars, extVars>>
  /\ RenderMarkersStep

\* closeDraft(), with resetDraftState.
closeDraft ==
  /\ ~IsNull(draft) /\ ~savingDraft /\ ~deletingMarker
  /\ resetDraftState
  /\ UNCHANGED <<isLoggedIn, savingDraft, submitCall, requests, addMode, user,
                 deletingMarker, lastDelete>>
  /\ UNCHANGED <<loadVars, viewVars, locVars, extVars>>
  /\ UNCHANGED draftPosts
  /\ UNCHANGED <<nearbyVars, moduleVars>>
  /\ RenderMarkersStep

\* ---------------------------------------------------- the submit of a draft

\* The validation of saveDraft without the tests of isValidHHMM.
SaveDraftErrorNoFormat(d) ==
  LET start == composeHHMM(d.openStartHour, d.openStartMinute)
      end == composeHHMM(d.openEndHour, d.openEndMinute)
  IN  IF (d.openStartHour # <<>>) # (d.openStartMinute # <<>>) THEN "start-hour-and-minute"
      ELSE IF (d.openEndHour # <<>>) # (d.openEndMinute # <<>>) THEN "end-hour-and-minute"
      ELSE IF Trim(d.title) = <<>> THEN "title-required"
      ELSE IF (start # <<>>) # (end # <<>>) THEN "start-and-end-together"
      ELSE ""

\* The validation of saveDraft: the notice of the first test the draft fails,
\* or '' for a draft that passes.
SaveDraftError(d) ==
  LET start == composeHHMM(d.openStartHour, d.openStartMinute)
      end == composeHHMM(d.openEndHour, d.openEndMinute)
  IN  IF (d.openStartHour # <<>>) # (d.openStartMinute # <<>>) THEN "start-hour-and-minute"
      ELSE IF (d.openEndHour # <<>>) # (d.openEndMinute # <<>>) THEN "end-hour-and-minute"
      ELSE IF Trim(d.title) = <<>> THEN "title-required"
      ELSE IF (start # <<>>) # (end # <<>>) THEN "start-and-end-together"
      ELSE IF start # <<>> /\ ~isValidHHMM(start) THEN "start-format"
      ELSE IF end # <<>> /\ ~isValidHHMM(end) THEN "end-format"
      ELSE ""

\* editingId ? ... : ... takes null and 0 as false.
IsTruthyId(id) == ~IsNull(id) /\ id.value # 0

\* The marker request of a submit: PATCH /api/markers/{editingId}, or
\* POST /api/markers.
MarkerRequest(id) ==
  IF IsTruthyId(id)
  THEN [method |-> "PATCH", path |-> "/api/markers/{id}", id |-> id]
  ELSE [method |-> "POST", path |-> "/api/markers", id |-> Null]

\* The image request of a submit with the id of the editingId it began with.
ImageRequestOfEdit(created, call) ==
  [method |-> "POST", path |-> "/api/markers/{id}/image", id |-> call.editingId]

\* The image request of a submit: POST /api/markers/{created.id}/image.
ImageRequest(created, call) ==
  [method |-> "POST", path |-> "/api/markers/{id}/image", id |-> IdOf(created.id)]

\* normalizeSingleMarker(raw): the marker of a response, or null.
normalizeSingleMarker(raw) ==
  LET list == normalizeMarkers(<<raw>>, 0, 0)
  IN  IF list = <<>> THEN Null ELSE list[1]

\* saveDraft() up to its first await. The button that calls it is shown with
\* a draft and is disabled while savingDraft.
saveDraft ==
  /\ ~IsNull(draft) /\ ~savingDraft
  /\ IF ~isLoggedIn
     THEN /\ notice' = "login-first"
          /\ resetDraftState
          /\ UNCHANGED <<savingDraft, submitCall, requests>>
     ELSE IF SaveDraftError(draft) # ""
     THEN /\ notice' = SaveDraftError(draft)
          /\ UNCHANGED <<draft, editingId, draftImageFile, timeFixHint, savingDraft,
                         submitCall, requests, canDeleteDraft, deleteConfirmOpen,
                         draftOwner>>
     ELSE /\ savingDraft' = TRUE
          /\ submitCall' = [stage |-> "marker", editingId |-> editingId,
                            image |-> draftImageFile, created |-> Null, camera |-> Null]
          /\ requests' = <<MarkerRequest(editingId)>>
          /\ UNCHANGED <<draft, editingId, draftImageFile, timeFixHint, notice,
                         canDeleteDraft, deleteConfirmOpen, draftOwner>>
  /\ UNCHANGED <<isLoggedIn, addMode, user, deletingMarker, lastDelete>>
  /\ UNCHANGED <<platform, isActive, mapReady, locationPermissionGranted, userLocation,
                 nativeLocateInFlightRef, nativeCalls, fallbackAge,
                 startupCameraAppliedRef, startupCameras, lastSetView, watchdogTimer,
                 nativeStartTimer, lastNativeReturn>>
  /\ UNCHANGED <<loadVars, viewVars, extVars>>
  /\ UNCHANGED draftPosts
  /\ UNCHANGED <<nearbyVars, moduleVars>>
  /\ RenderMarkersStep

\* The camera on the marker of a response, at the zoom of a submit.
SubmitCamera(raw) == [latitude |-> raw.lat, longitude |-> raw.lng, zoom |-> 15]

\* The end of a submit that threw: the catch and finally blocks.
SubmitFailed(message) ==
  /\ notice' = message
  /\ savingDraft' = FALSE
  /\ submitCall' = Null
  /\ UNCHANGED <<markers, lastSetView, draft, editingId, draftImageFile, timeFixHint,
                 requests, canDeleteDraft, deleteConfirmOpen, draftOwner>>

\* The end of a submit that went through: the marker is put first in the
\* list, the draft is reset, the camera goes to the marker.
SubmitDone(created, camera) ==
  /\ markers' = <<created>> \o SelectSeq(markers, LAMBDA m : m.id # created.id)
  /\ resetDraftState
  /\ notice' = "submitted"
  /\ lastSetView' = SetViewCmd(lastSetView, camera)
  /\ savingDraft' = FALSE
  /\ submitCall' = Null
  /\ UNCHANGED requests

\* Whether a submit with this capture uploads an image.
HasImage(call) == call.image

\* The count of the creations the server has answered with success for the
\* draft that is open, after the answer to the marker request of this call;
\* it stops at two.
PostsAfter(posts, ok, call) ==
  IF ok /\ ~IsTruthyId(call.editingId)
  THEN (IF posts = 0 THEN 1 ELSE 2)
  ELSE posts

\* The marker request of saveDraft is answered (ok, with this body) or fails.
MarkerResponse(ok, raw) ==
  /\ ~IsNull(submitCall) /\ submitCall.stage = "marker"
  /\ IF ~ok THEN SubmitFailed("request-failed")
     ELSE IF IsNull(normalizeSingleMarker(raw)) THEN SubmitFailed("bad-response")
     ELSE IF HasImage(submitCall)
     THEN /\ requests' = Append(requests, ImageRequest(normalizeSingleMarker(raw), submitCall))
          /\ submitCall' = [submitCall EXCEPT !.stage = "image",
                                              !.created = normalizeSingleMarker(raw),
                                              !.camera = SubmitCamera(raw)]
          /\ UNCHANGED <<markers, lastSetView, notice, draft, editingId, draftImageFile,
                         timeFixHint, savingDraft, canDeleteDraft, deleteConfirmOpen,
                         draftOwner>>
     ELSE SubmitDone(normalizeSingleMarker(raw), SubmitCamera(raw))
  /\ UNCHANGED <<isLoggedIn, addMode, user, deletingMarker, lastDelete>>
  /\ UNCHANGED <<error, loading, hasLoadedMarkersRef, markerQuerySeqRef, visibleCats,
                 mapBounds, inflight, lastLoadEmpty, anyFailed, lastDone>>
  /\ UNCHANGED <<platform, isActive, mapReady, locationPermissionGranted, userLocation,
                 nativeLocateInFlightRef, nativeCalls, fallbackAge,
                 startupCameraAppliedRef, startupCameras, watchdogTimer,
                 nativeStartTimer, lastNativeReturn>>
  /\ UNCHANGED <<viewVars, extVars>>
  /\ draftPosts' = PostsAfter(draftPosts, ok, submitCall)
  /\ UNCHANGED <<nearbyVars, moduleVars>>
  /\ RenderMarkersStep

\* The image request of saveDraft is answered (ok, with this body) or fails.
ImageResponse(ok, raw) ==
  /\ ~IsNull(submitCall) /\ submitCall.stage = "image"
  /\ IF ~ok THEN SubmitFailed("request-failed")
     ELSE IF IsNull(normalizeSingleMarker(raw))
     THEN SubmitDone(submitCall.created, submitCall.camera)
     ELSE SubmitDone(normalizeSingleMarker(raw), SubmitCamera(raw))
  /\ UNCHANGED <<isLoggedIn, addMode, user, deletingMarker, lastDelete>>
  /\ UNCHANGED <<error, loading, hasLoadedMarkersRef, markerQuerySeqRef, visibleCats,
                 mapBounds, inflight, lastLoadEmpty, anyFailed, lastDone>>
  /\ UNCHANGED <<platform, isActive, mapReady, locationPermissionGranted, userLocation,
                 nativeLocateInFlightRef, nativeCalls, fallbackAge,
                 startupCameraAppliedRef, startupCameras, watchdogTimer,
                 nativeStartTimer, lastNativeReturn>>
  /\ UNCHANGED <<viewVars, extVars>>
  /\ UNCHANGED draftPosts
  /\ UNCHANGED <<nearbyVars, moduleVars>>
  /\ RenderMarkersStep

\* ------------------------------------------------ add mode and the deletion

\* handleAddButtonPress(): the second press in add mode opens a draft at the
\* centre of the map; the first press enters add mode and drops the draft.
handleAddButtonPress ==
  \/ /\ ~isLoggedIn
     /\ notice' = "login-to-add"
     /\ UNCHANGED <<platform, isActive, mapReady, locationPermissionGranted, userLocation,
                    nativeLocateInFlightRef, nativeCalls, fallbackAge,
                    startupCameraAppliedRef, startupCameras, lastSetView, watchdogTimer,
                    nativeStartTimer, lastNativeReturn>>
     /\ UNCHANGED <<loadVars, viewVars, extVars, draftVars>>
     /\ RenderMarkersStep
  \/ /\ isLoggedIn /\ addMode
     /\ openDraftAt
  \/ /\ isLoggedIn /\ ~addMode
     /\ addMode' = TRUE
     /\ draft' = Null /\ editingId' = Null
     /\ canDeleteDraft' = TRUE /\ deleteConfirmOpen' = FALSE
     /\ draftOwner' = NoUser
     /\ notice' = "add-mode-on"
     /\ UNCHANGED <<isLoggedIn, draftImageFile, savingDraft, timeFixHint, submitCall,
                    requests, user, deletingMarker, lastDelete>>
     /\ UNCHANGED <<platform, isActive, mapReady, locationPermissionGranted, userLocation,
                    nativeLocateInFlightRef, nativeCalls, fallbackAge,
                    startupCameraAppliedRef, startupCameras, lastSetView, watchdogTimer,
                    nativeStartTimer, lastNativeReturn>>
     /\ UNCHANGED <<loadVars, viewVars, extVars>>
     /\ UNCHANGED draftPosts
     /\ UNCHANGED <<nearbyVars, moduleVars>>
     /\ RenderMarkersStep

\* The delete button of the draft sheet: shown under editingId &&
\* canDeleteDraft, disabled while saving or deleting.
openDeleteConfirm ==
  /\ ~IsNull(draft) /\ IsTruthyId(editingId) /\ canDeleteDraft
  /\ ~savingDraft /\ ~deletingMarker
  /\ deleteConfirmOpen' = TRUE
  /\ UNCHANGED <<isLoggedIn, draft, editingId, draftImageFile, savingDraft, timeFixHint,
                 submitCall, requests, addMode, user, canDeleteDraft, deletingMarker,
                 draftOwner, lastDelete>>
  /\ UNCHANGED <<loadVars, viewVars, locVars, extVars>>
  /\ UNCHANGED draftPosts
  /\ UNCHANGED <<nearbyVars, moduleVars>>
  /\ RenderMarkersStep

\* The cancel button, the backdrop and onRequestClose of the confirmation.
cancelDeleteConfirm ==
  /\ deleteConfirmOpen /\ ~deletingMarker
  /\ deleteConfirmOpen' = FALSE
  /\ UNCHANGED <<isLoggedIn, draft, editingId, draftImageFile, savingDraft, timeFixHint,
                 submitCall, requests, addMode, user, canDeleteDraft, deletingMarker,
                 draftOwner, lastDelete>>
  /\ UNCHANGED <<loadVars, viewVars, locVars, extVars>>
  /\ UNCHANGED draftPosts
  /\ UNCHANGED <<nearbyVars, moduleVars>>
  /\ RenderMarkersStep

\* confirmDeleteDraft() up to its first await; the button that calls it is in
\* the confirmation and is disabled while deleting.
confirmDeleteDraft ==
  /\ deleteConfirmOpen /\ ~deletingMarker
  /\ IF ~IsTruthyId(editingId)
     THEN UNCHANGED <<deletingMarker, lastDelete>>
     ELSE /\ deletingMarker' = TRUE
          /\ lastDelete' = [id |-> editingId, owner |-> draftOwner, user |-> user,
                            stage |-> "request", seq |-> 0]
  /\ UNCHANGED <<isLoggedIn, draft, editingId, draftImageFile, savingDraft, timeFixHint,
                 submitCall, requests, addMode, user, canDeleteDraft, deleteConfirmOpen,
                 draftOwner>>
  /\ UNCHANGED <<loadVars, viewVars, locVars, extVars>>
  /\ UNCHANGED draftPosts
  /\ UNCHANGED <<nearbyVars, moduleVars>>
  /\ RenderMarkersStep

\* The DELETE request is answered: the draft is reset and the viewport is
\* loaded anew (reloadMarkersInCurrentViewport), or the request has failed.
DeleteResponse(ok) ==
  /\ deletingMarker /\ ~IsNull(lastDelete) /\ lastDelete.stage = "request"
  /\ IF ok
     THEN /\ resetDraftState
          /\ ViewportLoadEffect(mapBounds, visibleCats)
          /\ lastDelete' = [lastDelete EXCEPT !.stage = "reload", !.seq = markerQuerySeqRef']
          /\ UNCHANGED <<deletingMarker, notice>>
     ELSE /\ notice' = "request-failed"
          /\ deletingMarker' = FALSE
          /\ lastDelete' = [lastDelete EXCEPT !.stage = "failed"]
          /\ UNCHANGED <<draft, editingId, draftImageFile, timeFixHint, canDeleteDraft,
                         deleteConfirmOpen, draftOwner>>
          /\ UNCHANGED <<markers, error, loading, hasLoadedMarkersRef, markerQuerySeqRef,
                         inflight, lastLoadEmpty>>
  /\ UNCHANGED <<isLoggedIn, savingDraft, submitCall, requests, addMode, user>>
  /\ UNCHANGED <<visibleCats, mapBounds, anyFailed, lastDone>>
  /\ UNCHANGED <<platform, isActive, mapReady, locationPermissionGranted, userLocation,
                 nativeLocateInFlightRef, nativeCalls, fallbackAge,
                 startupCameraAppliedRef, startupCameras, lastSetView, watchdogTimer,
                 nativeStartTimer, lastNativeReturn>>
  /\ UNCHANGED <<viewVars, extVars>>
  /\ UNCHANGED draftPosts
  /\ UNCHANGED <<nearbyVars, moduleVars>>
  /\ RenderMarkersStep

\* The reload and loadFavorites of confirmDeleteDraft have returned: the
\* notice, and the finally block.
DeleteReloaded ==
  /\ deletingMarker /\ ~IsNull(lastDelete) /\ lastDelete.stage = "reload"
  /\ \A load \in inflight : load.seq # lastDelete.seq
  /\ notice' = "deleted"
  /\ deletingMarker' = FALSE
  /\ lastDelete' = [lastDelete EXCEPT !.stage = "done"]
  /\ UNCHANGED <<isLoggedIn, draft, editingId, draftImageFile, savingDraft, timeFixHint,
                 submitCall, requests, addMode, user, canDeleteDraft, deleteConfirmOpen,
                 draftOwner>>
  /\ UNCHANGED <<platform, isActive, mapReady, locationPermissionGranted, userLocation,
                 nativeLocateInFlightRef, nativeCalls, fallbackAge,
                 startupCameraAppliedRef, startupCameras, lastSetView, watchdogTimer,
                 nativeStartTimer, lastNativeReturn>>
  /\ UNCHANGED <<loadVars, viewVars, extVars>>
  /\ UNCHANGED draftPosts
  /\ UNCHANGED <<nearbyVars, moduleVars>>
  /\ RenderMarkersStep

\* ------------------------------------------------------------ initial state

\* initialTileProvider of a build with the Thunderforest key and no Tianditu key.
initialTileProvider == "tf_atlas"

\* The state of MapScreen with nothing received yet, for the category
\* switches, stored camera strings, platforms and isActive props given.
InitWith(cats, raws, platforms, actives) ==
  /\ markers = <<>>
  /\ error = ""
  /\ loading = TRUE
  /\ hasLoadedMarkersRef = FALSE
  /\ markerQuerySeqRef = 0
  /\ visibleCats \in cats
  /\ mapBounds = Null
  /\ inflight = {}
  /\ lastLoadEmpty = FALSE
  /\ anyFailed = FALSE
  /\ lastDone = 0
  /\ mapViewport = INITIAL_VIEW
  /\ restoredViewportRef = Null
  /\ sessionRestored = FALSE
  /\ storedViewport \in raws
  /\ persistTimer = TimerOff
  /\ tileProvider = initialTileProvider
  /\ platform \in platforms
  /\ isActive \in actives
  /\ mapReady = FALSE
  /\ locationPermissionGranted = (platform # "android")
  /\ userLocation = Null
  /\ nativeLocateInFlightRef = FALSE
  /\ nativeCalls = <<>>
  /\ fallbackAge = CooldownTicks
  /\ startupCameraAppliedRef = FALSE
  /\ startupCameras = <<>>
  /\ lastSetView = [n |-> 0]
  /\ watchdogTimer = TimerOff
  /\ nativeStartTimer = NativeStartEffect(isActive, locationPermissionGranted, Null)
  /\ notice = ""
  /\ lastNativeReturn = "none"
  /\ lastDrop = [status |-> "none"]
  /\ lastMoveEnd = Null
  /\ pendingChanges = 0
  /\ lastWriteChanges = 0
  /\ mounted = TRUE
  /\ appStateRef = "active"
  /\ osPermission = TRUE
  /\ rendererBooted = FALSE
  /\ webUserLocation = NoCommand
  /\ mapInitView = INITIAL_VIEW
  /\ webRendered = NoRender
  /\ isLoggedIn = FALSE
  /\ draft = Null
  /\ editingId = Null
  /\ draftImageFile = FALSE
  /\ savingDraft = FALSE
  /\ timeFixHint = NoHint
  /\ submitCall = Null
  /\ requests = <<>>
  /\ addMode = FALSE
  /\ user = NoUser
  /\ canDeleteDraft = TRUE
  /\ deleteConfirmOpen = FALSE
  /\ deletingMarker = FALSE
  /\ draftOwner = NoUser
  /\ lastDelete = Null
  /\ draftPosts = 0
  /\ nearbyLoading = FALSE /\ nearbyOnly = FALSE /\ nearbyIds = {}
  /\ promises = <<>>
  /\ requestInFlight = FALSE /\ resolveBlock = 0 /\ rejectBlock = 0
  /\ timeoutWorkItem = FALSE
  /\ authorizationStatus = "notDetermined" /\ locationRequested = FALSE
  /\ androidRequests = <<>>

\* useState visibleCats: every category shown.
AllCategories ==
  [c \in {supportedCategories[i] : i \in 1..Len(supportedCategories)} |-> TRUE]

\* The state after the first render of MapScreen, for the stored camera
\* strings, platforms and isActive props given.
InitOf(raws, platforms, actives) == InitWith({AllCategories}, raws, platforms, actives)

\* ------------------------------------ the marker query coordinator, checked

\* moveend messages of three viewports: a plain box, a box across the
\* anti-meridian (east beyond 180 degrees), the whole world.
LoadMsgs ==
  {[latitude |-> INITIAL_VIEW.latitude, longitude |-> INITIAL_VIEW.longitude,
    zoom |-> INITIAL_VIEW.zoom, south |-> 30000, north |-> 40000,
    west |-> e[1], east |-> e[2]] :
     e \in {<<110000, 120000>>, <<170000, 190000>>, <<-180000, 180000>>}}

\* What the server answers to one viewport query: markers 1 and 2, or an item
\* without an id and marker 2.
SegmentPayloads ==
  {<<[id |-> 1], [id |-> 2]>>, <<[bad |-> TRUE], [id |-> 2]>>}

PayloadsFor(load) ==
  IF Len(load.queries) = 1 THEN {<<p>> : p \in SegmentPayloads}
  ELSE {<<p, q>> : p \in SegmentPayloads, q \in SegmentPayloads}

InitLoad == InitOf({AbsentRaw}, {"ios"}, {TRUE})

NextLoad ==
  \/ \E msg \in LoadMsgs : MoveEnd(msg)
  \/ \E visible \in BOOLEAN : setAllCategoriesVisible(visible)
  \/ \E load \in inflight : \E payloads \in PayloadsFor(load) : QuerySuccess(load, payloads)
  \/ \E load \in inflight : QueryFailure(load)

SpecLoad == InitLoad /\ [][NextLoad]_vars

\* A step in which loadMarkersInViewport ran: a moveend with edges or a change
\* of the categories, with bounds known.
LoadStep ==
  /\ ~IsNull(mapBounds')
  /\ \/ \E msg \in LoadMsgs : HasEdges(msg) /\ MoveEnd(msg)
     \/ \E visible \in BOOLEAN : setAllCategoriesVisible(visible)

\* C1: the completion (success or failure) of a load that a later load with
\* categories has superseded changes neither the markers nor the error.
C1_StaleResponseDropped ==
  [][\A load \in inflight :
       (load \notin inflight' /\ load.seq < markerQuerySeqRef)
         => (markers' = markers /\ error' = error)]_vars

\* C1 witness: load 6 was applied, the response of load 5 arrived after it,
\* and the markers are those of load 6.
C1_Witness ==
  /\ markerQuerySeqRef = 6
  /\ lastDone = 5
  /\ markers # <<>>
  /\ \A i \in 1..Len(markers) : markers[i].seq = 6

\* C2 (as claimed): with every query succeeding and no response outstanding,
\* the markers are the result of the load invoked last: empty if that load had
\* no categories, else the response to the newest sequence number.
C2_LatestLoadWins ==
  (inflight = {} /\ ~anyFailed /\ ~IsNull(mapBounds))
    => IF lastLoadEmpty THEN markers = <<>>
       ELSE \A i \in 1..Len(markers) : markers[i].seq = markerQuerySeqRef

\* C4: a load without categories empties the markers, clears the error and
\* issues no query (no load is added, the sequence number stays).
C4_EmptyLoadNoQuery ==
  [][(LoadStep /\ selectedVisibleCategories(visibleCats') = <<>>)
       => /\ markers' = <<>>
          /\ error' = ""
          /\ inflight' = inflight
          /\ markerQuerySeqRef' = markerQuerySeqRef]_vars

\* C4 witness: a load without categories ran after markers had been loaded
\* and a query had failed.
C4_Witness ==
  /\ lastLoadEmpty /\ selectedVisibleCategories(visibleCats) = <<>>
  /\ markers = <<>> /\ error = ""
  /\ anyFailed /\ lastDone > 0

\* The ids of a payload that normalizeMarkers keeps.
PayloadIds(payload) ==
  {payload[i].id : i \in {j \in 1..Len(payload) : "id" \in DOMAIN payload[j]}}

\* C5: a load with categories issues one query [-180, 180] for the whole
\* world, one query [minLng, maxLng] for a box that does not wrap, and the two
\* queries [minLng, 180], [-180, maxLng] for a box across the anti-meridian,
\* never more than two; the two results are merged by id, every id once, the
\* entry of the second slice winning.
C5_QueriesPerLoad ==
  [][/\ markerQuerySeqRef' # markerQuerySeqRef =>
          /\ Cardinality(inflight' \ inflight) = 1
          /\ \A load \in inflight' \ inflight :
               LET b == mapBounds'
                   q == load.queries
                   lngs == [i \in 1..Len(q) |-> <<q[i].minLng, q[i].maxLng>>]
               IN  /\ Len(q) <= 2
                   /\ b.wholeWorld => lngs = << <<-180000, 180000>> >>
                   /\ (~b.wholeWorld /\ ~b.wrapsAntimeridian)
                        => lngs = << <<b.minLng, b.maxLng>> >>
                   /\ (~b.wholeWorld /\ b.wrapsAntimeridian)
                        => lngs = << <<b.minLng, 180000>>, <<-180000, b.maxLng>> >>
     /\ \A load \in inflight : \A payloads \in PayloadsFor(load) :
          (QuerySuccess(load, payloads) /\ Len(load.queries) = 2
             /\ load.seq = markerQuerySeqRef)
            => /\ {markers'[i].id : i \in 1..Len(markers')}
                    = PayloadIds(payloads[1]) \cup PayloadIds(payloads[2])
               /\ \A i, j \in 1..Len(markers') :
                    markers'[i].id = markers'[j].id => i = j
               /\ \A i \in 1..Len(markers') :
                    markers'[i].slice =
                      IF markers'[i].id \in PayloadIds(payloads[2]) THEN 2 ELSE 1]_vars

\* C5 witness: the two results of an anti-meridian load were merged, with an
\* entry of each slice, while a load of a plain box is in flight.
C5_Witness ==
  /\ \E i, j \in 1..Len(markers) : markers[i].slice = 1 /\ markers[j].slice = 2
  /\ \E load \in inflight : Len(load.queries) = 1 /\ load.queries[1].maxLng < 180000

\* ------------------------------- the location arbiter and the startup camera

\* The fixes the renderer and the native module report.
LocFixes ==
  {[latitude |-> 31230, longitude |-> 121474], [latitude |-> 22543, longitude |-> 114058]}

\* The trimmed messages of the renderer's geoError.
GeoDetails == {"", "Only secure origins are allowed"}

\* How the native module settles a request: a fix, a payload without finite
\* coordinates, a rejection.
NativeOutcomes ==
  {[kind |-> "fix", latitude |-> f.latitude, longitude |-> f.longitude] : f \in LocFixes}
    \cup {[kind |-> "invalid"]}
    \cup {[kind |-> "error", code |-> c] : c \in {"LOCATION_PERMISSION_DENIED", "LOCATION_TIMEOUT"}}

\* The tile sources the user switches between.
TileProviders == {"osm", "tf_atlas"}

\* What the storage holds at launch: nothing, or a camera.
LocRaws == {AbsentRaw, JsonOf([latitude |-> 48857, longitude |-> 2352, zoom |-> 13])}

\* The arbiter from launch until the session is restored: renderer errors and
\* fixes, the startup timer, recenter, the native module, the permission.
InitLoc == InitOf({AbsentRaw}, {"ios", "android"}, {TRUE})

NextLoc ==
  \/ \E detail \in GeoDetails : GeoError(detail)
  \/ NativeStartFire
  \/ recenterToUserLocation
  \/ \E i \in 1..Len(nativeCalls) : \E outcome \in NativeOutcomes : NativeSettle(i, outcome)
  \/ \E fix \in LocFixes : UserLocationMsg(fix)
  \/ MapReadyMsg
  \/ \E active \in BOOLEAN : SetActive(active)
  \/ \E requestIfMissing \in BOOLEAN : \E ok \in BOOLEAN :
       syncLocationPermission(requestIfMissing, ok)
  \/ Tick

SpecLoc == InitLoc /\ [][NextLoc]_vars

\* The startup camera: fixes of the renderer and of the native module, the
\* renderer's mapReady, tile changes, activity changes, the session restore,
\* the timers.
InitStart == InitOf(LocRaws, {"ios"}, {TRUE, FALSE})

NextStart ==
  \/ NativeStartFire
  \/ recenterToUserLocation
  \/ \E i \in 1..Len(nativeCalls) : \E outcome \in NativeOutcomes : NativeSettle(i, outcome)
  \/ \E fix \in LocFixes : UserLocationMsg(fix)
  \/ MapReadyMsg
  \/ \E active \in BOOLEAN : SetActive(active)
  \/ \E key \in TileProviders : setTileProvider(key)
  \/ WatchdogFire
  \/ \E readOk \in BOOLEAN : SessionRestore(readOk)
  \/ PersistFire
  \/ Tick

SpecStart == InitStart /\ [][NextStart]_vars

\* Timers that are due fire, and time passes.
SpecStartFair ==
  /\ InitStart /\ [][NextStart]_vars
  /\ WF_vars(Tick) /\ WF_vars(WatchdogFire)
  /\ WF_vars(PersistFire) /\ WF_vars(NativeStartFire)

\* A step in which requestNativeCurrentLocation is called: the startup timer,
\* recenter without a known fix, a geoError past the cooldown.
NativeCallStep ==
  \/ NativeStartFire
  \/ recenterToUserLocation /\ locationPermissionGranted /\ IsNull(userLocation)
  \/ /\ \E detail \in GeoDetails : GeoError(detail)
     /\ locationPermissionGranted /\ fallbackAge >= CooldownTicks

\* C3: the native module never has more than one getCurrentPosition call to
\* settle, and a call of requestNativeCurrentLocation made while one is in
\* flight returns false without a call of the native module.
C3_SingleNativeRequest ==
  [][/\ Len(nativeCalls') <= 1
     /\ (NativeCallStep /\ nativeLocateInFlightRef)
          => /\ nativeCalls' = nativeCalls
             /\ lastNativeReturn' \in {"busy", "refused"}]_vars

\* C3 witness: recenter was turned away as busy while the request of the
\* startup timer is in flight.
C3_Witness ==
  /\ Len(nativeCalls) = 1 /\ nativeCalls[1].origin = "startup"
  /\ nativeLocateInFlightRef
  /\ lastNativeReturn = "busy" /\ notice = "recenter-unavailable"

\* C6: a geoError with the permission granted is ignored within 1800 ms of the
\* last fallback attempt (no native call, no notice, the cooldown timestamp
\* kept); otherwise the timestamp becomes now and requestNativeCurrentLocation
\* is called. The timestamp is only ever reset 1800 ms after it was set.
C6_GeoErrorCooldown ==
  [][/\ \A detail \in GeoDetails :
          (GeoError(detail) /\ locationPermissionGranted)
            => IF fallbackAge < CooldownTicks
               THEN /\ nativeCalls' = nativeCalls
                    /\ notice' = notice
                    /\ fallbackAge' = fallbackAge
                    /\ lastNativeReturn' = lastNativeReturn
               ELSE /\ fallbackAge' = 0
                    /\ lastNativeReturn' \in {"started", "busy"}
                    /\ ~nativeLocateInFlightRef =>
                         nativeCalls' = Append(nativeCalls,
                           [recenter |-> FALSE, origin |-> "geoError", detail |-> detail])
     /\ fallbackAge' < fallbackAge => fallbackAge >= CooldownTicks]_vars

\* C6 witness: a fallback request is in flight, started by a geoError at least
\* 1800 ms after a fallback that had ended with its notice.
C6_Witness ==
  /\ fallbackAge = 0
  /\ Len(nativeCalls) = 1 /\ nativeCalls[1].origin = "geoError"
  /\ notice = GeoNotice("")

\* A step in which a fix arrives: a userLocation message of the renderer, or
\* the native module settling a request with a fix.
FixArrives ==
  \/ \E fix \in LocFixes : UserLocationMsg(fix)
  \/ \E i \in 1..Len(nativeCalls) : \E outcome \in NativeOutcomes :
       outcome.kind = "fix" /\ NativeSettle(i, outcome)

\* A step in which the native module answers, with a fix, a request that
\* recenter started.
RecenterFixArrives ==
  \E i \in 1..Len(nativeCalls) : \E outcome \in NativeOutcomes :
    outcome.kind = "fix" /\ nativeCalls[i].recenter /\ NativeSettle(i, outcome)

\* C7 (amended): at most one startup camera command is sent in a session, and
\* a fix that arrives after the startup camera was applied sends a camera
\* command only when it answers a native request that recenter started.
C7_StartupCameraOnce ==
  [][/\ Len(startupCameras') <= 1
     /\ (startupCameraAppliedRef /\ FixArrives /\ ~RecenterFixArrives)
          => lastSetView' = lastSetView]_vars

\* C7 (as claimed): at most one startup camera command is sent in a session,
\* and a fix that arrives after the startup camera was applied never moves
\* the camera.
C7_FixNeverMovesCamera ==
  [][/\ Len(startupCameras') <= 1
     /\ (startupCameraAppliedRef /\ FixArrives) => lastSetView' = lastSetView]_vars

\* C7 witness: the watchdog applied the startup camera, the tile source was
\* changed and the new renderer is ready, a fix has arrived since, and the
\* startup command is still the only camera command sent.
C7_Witness ==
  /\ startupCameraAppliedRef /\ Len(startupCameras) = 1
  /\ startupCameras[1].zoom # UserZoom
  /\ ~IsNull(userLocation)
  /\ tileProvider # initialTileProvider /\ mapReady /\ isActive
  /\ lastSetView = SetViewCmd([n |-> 0], startupCameras[1])

\* C8: the startup camera is the known fix at zoom 15 when a fix is known as
\* it is applied; otherwise it is applied by the watchdog firing, and is the
\* restored camera if there is one, else INITIAL_VIEW.
C8_StartupTargetOrder ==
  [][startupCameras' # startupCameras =>
       LET target == startupCameras'[Len(startupCameras')]
       IN  IF ~IsNull(userLocation')
           THEN target = UserCamera(userLocation')
           ELSE /\ watchdogTimer = 0 /\ watchdogTimer' = TimerOff
                /\ target = IF IsNull(restoredViewportRef) THEN INITIAL_VIEW
                            ELSE restoredViewportRef]_vars

\* C8 witness: without a fix, the watchdog applied the camera restored from
\* storage.
C8_Witness ==
  /\ startupCameraAppliedRef /\ IsNull(userLocation)
  /\ ~IsNull(restoredViewportRef) /\ restoredViewportRef # INITIAL_VIEW
  /\ startupCameras = <<restoredViewportRef>>

\* The screen is active, the renderer has reported mapReady and the session
\* restore has finished.
StartupReady == isActive /\ mapReady /\ sessionRestored

\* C9: from every state in which the screen is active, the map is ready and
\* the session is restored, a startup camera is eventually applied, unless
\* one of the three conditions is lost first.
C9_StartupNotBlocked == StartupReady ~> (startupCameraAppliedRef \/ ~StartupReady)

\* C9 witness: the startup camera was applied although no fix and no answer
\* of the native module ever arrived (the request of the startup timer is
\* still in flight).
C9_Witness ==
  /\ StartupReady /\ startupCameraAppliedRef
  /\ IsNull(userLocation) /\ notice = ""
  /\ Len(nativeCalls) = 1 /\ nativeCalls[1].origin = "startup"
  /\ startupCameras = <<INITIAL_VIEW>>

\* ------------------------------------------------------- the viewport store

\* moveend messages with a finite centre and zoom (the edges are left out, so
\* that no viewport load follows): zoomed out below 3, at the zoom limits,
\* centres on and beyond the anti-meridian.
ViewMsgs ==
  {[latitude |-> lat, longitude |-> lng, zoom |-> zoom] :
     lat \in {-85051, 0, 39904},
     lng \in {-180000, 116407, 180000, 190000},
     zoom \in {1, 3, 20}}

\* What the storage holds at launch: nothing, a string that is not JSON, JSON
\* null, a JSON array, JSON without a centre, JSON whose centre is null, a
\* camera, a camera out of range.
ViewRaws ==
  {AbsentRaw, [kind |-> "garbage"], [kind |-> "jsonnull"], [kind |-> "jsonarray"],
   JsonOf([zoom |-> 12]),
   JsonOf([nulls |-> {"latitude", "longitude"}, zoom |-> 12]),
   JsonOf([latitude |-> 48857, longitude |-> 2352, zoom |-> 13]),
   JsonOf([latitude |-> 95000, longitude |-> 540000, zoom |-> 25]),
   JsonOf([latitude |-> -95000, longitude |-> -190000])}

InitView == InitOf(ViewRaws, {"ios"}, {FALSE})

NextView ==
  \/ \E msg \in ViewMsgs : MoveEnd(msg)
  \/ \E readOk \in BOOLEAN : SessionRestore(readOk)
  \/ PersistFire
  \/ Tick

SpecView == InitView /\ [][NextView]_vars

\* C10 (as claimed): the camera of the viewport store has its latitude in
\* [-90, 90], its longitude in [-180, 180) and its zoom in [3, 20].
C10_CameraInRange ==
  /\ mapViewport.latitude >= -90000 /\ mapViewport.latitude <= 90000
  /\ mapViewport.longitude >= -180000 /\ mapViewport.longitude < 180000
  /\ mapViewport.zoom >= MinZoom /\ mapViewport.zoom <= MaxZoom

\* ------------------------------------------- the bounds of a moveend message

\* useState visibleCats after setAllCategoriesVisible(false): no category
\* is shown, so that a moveend computes the bounds and issues no query.
HiddenCategories ==
  [c \in {supportedCategories[i] : i \in 1..Len(supportedCategories)} |-> FALSE]

\* Centre longitudes of a moveend: negative, at and next to +-180, turns beyond.
CameraLngs ==
  {-900000, -540001, -190000, -180001, -180000, -1, 0, 179999, 180000, 180001,
   540000, 899999}

\* West and east edges of a moveend: either sign, at and beyond +-180.
EdgeLngs ==
  {-540000, -190000, -180000, -179999, -170000, 170000, 179999, 180000, 190000}

\* South and north edges: in order, swapped, beyond +-90.
EdgeLats == {<<30000, 40000>>, <<40000, 30000>>, <<-95000, 95000>>, <<95000, -95000>>}

\* moveend messages that differ in the centre longitude.
CameraMsgs ==
  {[latitude |-> 0, longitude |-> lng, zoom |-> 11,
    south |-> 30000, north |-> 40000, west |-> 110000, east |-> 120000] :
     lng \in CameraLngs}

\* moveend messages that differ in the edges.
EdgeMsgs ==
  {[latitude |-> INITIAL_VIEW.latitude, longitude |-> INITIAL_VIEW.longitude,
    zoom |-> INITIAL_VIEW.zoom, south |-> lat[1], north |-> lat[2],
    west |-> west, east |-> east] :
     lat \in EdgeLats, west \in EdgeLngs, east \in EdgeLngs}

\* moveend messages in which a field is missing or null: the centre alone,
\* the edges alone, no zoom, a null south edge, nothing.
PartialMsgs ==
  {[latitude |-> 10000, longitude |-> 20000, zoom |-> 5],
   [south |-> -10000, north |-> 10000, west |-> -20000, east |-> 20000],
   [latitude |-> 10000, longitude |-> 20000,
    south |-> -10000, north |-> 10000, west |-> -20000, east |-> 20000],
   [latitude |-> 10000, longitude |-> 20000, zoom |-> 5, nulls |-> {"south"},
    north |-> 10000, west |-> -20000, east |-> 20000],
   [nulls |-> {}]}

BoundsMsgs == CameraMsgs \cup EdgeMsgs \cup PartialMsgs

InitBounds == InitWith({HiddenCategories}, {AbsentRaw}, {"ios"}, {FALSE})

NextBounds == \E msg \in BoundsMsgs : MoveEnd(msg)

SpecBounds == InitBounds /\ [][NextBounds]_vars

\* C11: the bounds of a moveend have minLat <= maxLat, both within
\* [-90, 90], and are never wholeWorld and wrapsAntimeridian at once.
C11_BoundsWellFormed ==
  ~IsNull(mapBounds) =>
    /\ mapBounds.minLat <= mapBounds.maxLat
    /\ mapBounds.minLat >= -90000 /\ mapBounds.maxLat <= 90000
    /\ ~(mapBounds.wholeWorld /\ mapBounds.wrapsAntimeridian)

\* C11 witness: bounds of a message with south at 95 and north at -95
\* degrees, clamped to both poles and in order.
C11_Witness ==
  /\ lastMoveEnd \in EdgeMsgs
  /\ lastMoveEnd.south = 95000 /\ lastMoveEnd.north = -95000
  /\ mapBounds.minLat = -90000 /\ mapBounds.maxLat = 90000
  /\ ~mapBounds.wholeWorld

\* C12: the longitude normalizeLng leaves in the camera lies in [-180, 180),
\* differs from the longitude of the message by whole turns, and is a fixed
\* point of normalizeLng.
C12_NormalizeLng ==
  lastMoveEnd \in CameraMsgs =>
    /\ mapViewport.longitude >= -180000 /\ mapViewport.longitude < 180000
    /\ (mapViewport.longitude - lastMoveEnd.longitude) % 360000 = 0
    /\ normalizeLng(mapViewport.longitude) = mapViewport.longitude

\* C12 witness: the camera of a moveend centred two and a half turns west.
C12_Witness ==
  /\ lastMoveEnd \in CameraMsgs /\ lastMoveEnd.longitude = -900000
  /\ mapViewport.longitude = 180000 - 360000

\* C13: edges with |east - west| >= 359.999 degrees give wholeWorld bounds
\* from -180 to 180 that do not wrap; all other edges give bounds that are
\* not wholeWorld.
C13_WholeWorld ==
  lastMoveEnd \in EdgeMsgs =>
    IF MathAbs(lastMoveEnd.east - lastMoveEnd.west) >= 359999
    THEN /\ mapBounds.wholeWorld /\ ~mapBounds.wrapsAntimeridian
         /\ mapBounds.minLng = -180000 /\ mapBounds.maxLng = 180000
    ELSE ~mapBounds.wholeWorld

\* C13 witness: whole-world bounds of edges from 180 in the west to -179.999
\* in the east, next to bounds of edges one millidegree short of the world.
C13_Witness ==
  /\ lastMoveEnd \in EdgeMsgs
  /\ lastMoveEnd.west = 180000 /\ lastMoveEnd.east = -179999
  /\ mapBounds.wholeWorld /\ mapBounds.minLng = -180000 /\ mapBounds.maxLng = 180000

\* --------------------------------------- loads across the anti-meridian

\* moveend messages of a box across the anti-meridian, reported with the
\* east edge at -170, at 190, with the west edge at -190, and of a plain box.
WrapMsgs ==
  {[latitude |-> INITIAL_VIEW.latitude, longitude |-> INITIAL_VIEW.longitude,
    zoom |-> INITIAL_VIEW.zoom, south |-> 30000, north |-> 40000,
    west |-> e[1], east |-> e[2]] :
     e \in {<<170000, -170000>>, <<170000, 190000>>, <<-190000, -170000>>,
            <<110000, 120000>>}}

\* What the server answers to one query of these loads.
WrapPayloads == {<<[id |-> 1]>>}

InitWrap == InitOf({AbsentRaw}, {"ios"}, {FALSE})

NextWrap ==
  \/ \E msg \in WrapMsgs : MoveEnd(msg)
  \/ \E load \in inflight : \E p \in WrapPayloads :
       QuerySuccess(load, [i \in 1..Len(load.queries) |-> p])

SpecWrap == InitWrap /\ [][NextWrap]_vars

\* C14: bounds that are not wholeWorld have minLng = normalizeLng(west),
\* maxLng = normalizeLng(east) and wrapsAntimeridian = (minLng > maxLng);
\* edges west = 170, east = -170 give wrapping bounds from 170 to -170, and
\* their load issues the two queries [170, 180] and [-180, -170].
C14_AntimeridianBounds ==
  [][\A msg \in WrapMsgs :
       MoveEnd(msg) =>
         /\ ~mapBounds'.wholeWorld
         /\ mapBounds'.minLng = normalizeLng(msg.west)
         /\ mapBounds'.maxLng = normalizeLng(msg.east)
         /\ mapBounds'.wrapsAntimeridian = (mapBounds'.minLng > mapBounds'.maxLng)
         /\ (msg.west = 170000 /\ msg.east = -170000) =>
              /\ mapBounds'.wrapsAntimeridian
              /\ mapBounds'.minLng = 170000 /\ mapBounds'.maxLng = -170000
              /\ \E load \in inflight' \ inflight :
                   /\ inflight' \ inflight = {load}
                   /\ [i \in 1..Len(load.queries) |->
                         <<load.queries[i].minLng, load.queries[i].maxLng>>]
                        = << <<170000, 180000>>, <<-180000, -170000>> >>]_vars

\* C14 witness: the load of the moveend with west = 170 and east = -170 is in
\* flight with its two queries, after a load of a plain box was answered.
C14_Witness ==
  /\ ~IsNull(lastMoveEnd)
  /\ lastMoveEnd.west = 170000 /\ lastMoveEnd.east = -170000
  /\ mapBounds.wrapsAntimeridian
  /\ \E load \in inflight : load.seq = markerQuerySeqRef /\ Len(load.queries) = 2
  /\ lastDone > 0

BridgePayloads ==
  {[kind |-> "garbage"], [kind |-> "jsonnull"], [kind |-> "jsonscalar"],
   [kind |-> "jsonarray"],
   JsonOf([latitude |-> 10000, longitude |-> 20000, zoom |-> 5]),
   JsonOf([message |-> "denied"]),
   JsonOf([type |-> "mapReady"]),
   JsonOf([type |-> "moveend", latitude |-> 10000, longitude |-> 20000, zoom |-> 5,
           south |-> 9000, north |-> 11000, west |-> 19000, east |-> 21000]),
   JsonOf([type |-> "moveend", latitude |-> 0, longitude |-> 0, zoom |-> 3,
           south |-> -60000, north |-> 60000, west |-> -90000, east |-> 90000]),
   JsonOf([type |-> "userLocation", latitude |-> 31230, longitude |-> 121474]),
   JsonOf([type |-> "userLocation", longitude |-> 121474]),
   JsonOf([type |-> "geoError", message |-> "denied"]),
   JsonOf([type |-> "geoError"]),
   JsonOf([type |-> "markerPress", id |-> 1]),
   JsonOf([type |-> "leafletLoadFailed"]),
   JsonOf([type |-> "resize"])}

InitBridge == InitOf({AbsentRaw}, {"ios"}, {TRUE})

NextBridge == \E raw \in BridgePayloads : handleWebMessage(raw)

SpecBridge == InitBridge /\ [][NextBridge]_vars

\* The payloads that are not JSON, not a JSON object, or an object with no
\* type field.
MalformedPayloads ==
  {raw \in BridgePayloads : raw.kind # "json" \/ "type" \notin DOMAIN raw.value}

\* C16: handling a payload that is not JSON, not an object or without a type
\* field returns normally and changes nothing: no state of the screen, no
\* command to the renderer; the handler never ends by an exception.
C16_MalformedDropped ==
  [][\A raw \in MalformedPayloads :
       handleWebMessage(raw) =>
         /\ lastDrop'.status = "dropped"
         /\ UNCHANGED <<loadVars, viewVars, locVars>>
         /\ UNCHANGED <<lastMoveEnd, persistHist, lifeVars, webVars, webRendered,
                         draftVars>>]_vars

\* Text that is not JSON was dropped before the renderer was ready, and the
\* mapReady and moveend messages that followed were handled.
C16_Witness ==
  /\ lastDrop.status = "dropped" /\ lastDrop.raw.kind = "garbage"
  /\ ~lastDrop.mapReady /\ mapReady
  /\ ~IsNull(lastMoveEnd) /\ ~IsNull(mapBounds)

\* ------------------------------------------------------ the session restore

\* A stored string that is not the JSON of a camera: no string, not JSON, JSON
\* of another shape, or an object whose latitude or longitude is not a number.
MalformedStored(raw) ==
  \/ raw.kind # "json"
  \/ "latitude" \notin DOMAIN raw.value
  \/ "longitude" \notin DOMAIN raw.value

\* C17 (as claimed): when the session restore settles on a stored string that
\* is not the JSON of a camera, the restored camera is null.
C17_MalformedRestoresNull ==
  [][(~sessionRestored /\ sessionRestored') =>
       (MalformedStored(storedViewport) => IsNull(restoredViewportRef'))]_vars

\* ------------------------------------------------- the camera persistence

TeardownMsgs ==
  {[latitude |-> lat, longitude |-> lng, zoom |-> 12] :
     lat \in {0, 39904}, lng \in {116407, 121474}}

TeardownRaws ==
  {AbsentRaw, JsonOf([latitude |-> 48857, longitude |-> 2352, zoom |-> 13])}

InitTeardown == InitOf(TeardownRaws, {"ios"}, {FALSE})

\* Nothing of the screen runs once it is unmounted.
NextTeardown ==
  \/ mounted /\ \E msg \in TeardownMsgs : MoveEnd(msg)
  \/ mounted /\ \E readOk \in BOOLEAN : SessionRestore(readOk)
  \/ mounted /\ PersistFire
  \/ mounted /\ Tick
  \/ Unmount

SpecTeardown == InitTeardown /\ [][NextTeardown]_vars

\* C19 (as claimed): when the screen is unmounted while a camera write is
\* pending, the storage holds that camera afterwards.
C19_FlushOnTeardown ==
  [][(mounted /\ ~mounted' /\ persistTimer >= 0) =>
       storedViewport' = JsonOf(PersistPayload)]_vars

\* -------------------------------------------- the user location in the page

\* C20 (as claimed): whenever the renderer is ready (mapReady holds and the
\* page has run its script), the last user-location command it received is
\* that of the arbiter's state: __rnSetUserLocation with the coordinates of
\* userLocation, or, with no location known, __rnClearUserLocation or nothing.
C20_RendererShowsUserLocation ==
  (mapReady /\ rendererBooted) =>
    IF IsNull(userLocation)
    THEN webUserLocation \in {NoCommand, UserLocationCommand(Null)}
    ELSE webUserLocation = UserLocationCommand(userLocation)

\* ------------------------------------------------ the markers in the page

\* A moveend over a plain box, and what the server answers to its query:
\* markers of three categories, one of them unknown to the app.
RenderMsgs ==
  {[latitude |-> 35000, longitude |-> 115000, zoom |-> 11,
    south |-> 30000, north |-> 40000, west |-> 110000, east |-> 120000]}

RenderPayloads ==
  {<<[id |-> 1, category |-> "friendly_clinic"], [id |-> 2, category |-> "accessible_toilet"],
     [id |-> 3, category |-> "cafe"]>>,
   <<[id |-> 2, category |-> "accessible_toilet"]>>}

RenderCategories == {"friendly_clinic", "self_definition"}

InitRender == InitOf(LocRaws, {"ios"}, {FALSE})

\* Loads and their answers, category switches, the page's mapReady, and what
\* loads the page anew: a tile change, a restored camera.
NextRender ==
  \/ \E msg \in RenderMsgs : MoveEnd(msg)
  \/ \E load \in inflight : \E payload \in RenderPayloads : QuerySuccess(load, <<payload>>)
  \/ \E key \in RenderCategories : toggleCategory(key)
  \/ MapReadyMsg
  \/ \E key \in TileProviders : setTileProvider(key)
  \/ \E readOk \in BOOLEAN : SessionRestore(readOk)

SpecRender == InitRender /\ [][NextRender]_vars

\* C21: handling mapReady sends __rnRenderMarkers with the markers of the
\* categories shown, and a page that is ready has received exactly the
\* markers the screen holds for it, also after it was loaded anew.
C21_MapReadyRendersMarkers ==
  /\ [][MapReadyMsg =>
          webRendered' = [sent |-> TRUE,
                          list |-> SelectSeq(markers,
                                     LAMBDA m : visibleCats[m.category])]]_vars
  /\ []((mapReady /\ rendererBooted) =>
          webRendered = [sent |-> TRUE,
                         list |-> SelectSeq(markers, LAMBDA m : visibleCats[m.category])])

\* The page was loaded anew by the restored camera while mapReady held, and
\* after its mapReady it shows the markers held, some of them filtered out.
C21_Witness ==
  /\ mapReady /\ rendererBooted /\ sessionRestored
  /\ mapInitView # INITIAL_VIEW
  /\ webRendered.sent /\ webRendered.list # <<>>
  /\ Len(webRendered.list) < Len(markers)

\* ------------------------------------------------- the permission flag

\* C22: a native request that fails with LOCATION_PERMISSION_DENIED leaves
\* locationPermissionGranted false, and no step taken while the flag is false
\* starts a native request (none is added to the calls in flight, the
\* in-flight flag is not raised).
C22_DeniedStopsNative ==
  [][/\ \A i \in 1..Len(nativeCalls) :
          NativeSettle(i, [kind |-> "error", code |-> "LOCATION_PERMISSION_DENIED"])
            => ~locationPermissionGranted'
     /\ ~locationPermissionGranted =>
          /\ Len(nativeCalls') <= Len(nativeCalls)
          /\ ~(nativeLocateInFlightRef' /\ ~nativeLocateInFlightRef)]_vars

\* On iOS a denied request lowered the flag, and a recenter after it was
\* answered with the permission notice and started nothing.
C22_Witness ==
  /\ platform = "ios" /\ ~locationPermissionGranted
  /\ notice = "need-permission"
  /\ nativeCalls = <<>> /\ ~nativeLocateInFlightRef

\* ------------------------------------------- the permission on foreground

AppStates == {"active", "inactive", "background"}

InitForeground == InitOf({AbsentRaw}, {"ios", "android"}, {TRUE})

\* The native module rejects with LOCATION_PERMISSION_DENIED exactly when the
\* OS permission is denied.
NextForeground ==
  \/ \E nextState \in AppStates : AppStateChange(nextState)
  \/ \E granted \in BOOLEAN : SetOsPermission(granted)
  \/ recenterToUserLocation
  \/ \E i \in 1..Len(nativeCalls) : \E outcome \in NativeOutcomes :
       /\ IsPermissionDenied(outcome) <=> ~osPermission
       /\ NativeSettle(i, outcome)
  \/ \E active \in BOOLEAN : SetActive(active)

SpecForeground == InitForeground /\ [][NextForeground]_vars

\* C23 (as claimed): when the app comes back to active from inactive or
\* background while the screen is active and the OS permission is granted,
\* the permission flag is true afterwards, on Android and on iOS.
C23_ForegroundRechecks ==
  [][(isActive /\ appStateRef \in {"inactive", "background"} /\ appStateRef' = "active"
        /\ osPermission)
       => locationPermissionGranted']_vars

\* ------------------------------------------------------------- the recenter

\* C24 (as claimed): recenter with a known location sends one __rnSetView to
\* it and starts no native request; with none known and the permission
\* granted, one native request is in flight after the call, the one it
\* started or the one that was in flight, and that request moves the camera
\* to its fix when it succeeds.
C24_RecenterOneShot ==
  [][/\ (recenterToUserLocation /\ locationPermissionGranted) =>
          IF ~IsNull(userLocation)
          THEN /\ lastSetView' = SetViewCmd(lastSetView, UserCamera(userLocation))
               /\ nativeCalls' = nativeCalls
          ELSE /\ Len(nativeCalls') = 1
               /\ nativeCalls'[1].recenter
     /\ RecenterFixArrives =>
          /\ lastSetView'.latitude = userLocation'.latitude
          /\ lastSetView'.longitude = userLocation'.longitude
          /\ lastSetView'.zoom = UserZoom]_vars

\* ------------------------------------------------ the geolocation notices

GeoNotices == {"geo-insecure", "geo-detail", "geo-generic"}

\* C25 (as claimed): a geolocation failure notice appears only in the step in
\* which the native request made for a geoError settles without a fix; no
\* such notice appears while a native request is in flight.
C25_NoticeAfterFallbackFailed ==
  [][(notice' \in GeoNotices /\ notice' # notice) =>
       /\ \E i \in 1..Len(nativeCalls) :
            /\ nativeCalls[i].origin = "geoError"
            /\ nativeCalls' = SubSeq(nativeCalls, 1, i - 1)
                                \o SubSeq(nativeCalls, i + 1, Len(nativeCalls))
       /\ userLocation' = userLocation
       /\ ~nativeLocateInFlightRef']_vars

\* ------------------------------------------- the native request's timeout

\* The timeout of the native module fires for the request in flight
\* (Handler.postDelayed on Android, DispatchQueue.main.asyncAfter on iOS): the
\* promise is rejected with LOCATION_TIMEOUT.
NativeTimeout ==
  \E i \in 1..Len(nativeCalls) :
    NativeSettle(i, [kind |-> "error", code |-> "LOCATION_TIMEOUT"])

InitNative == InitOf({AbsentRaw}, {"ios"}, {TRUE})

NextNative ==
  \/ \E detail \in GeoDetails : GeoError(detail)
  \/ NativeStartFire
  \/ recenterToUserLocation
  \/ \E i \in 1..Len(nativeCalls) : \E outcome \in NativeOutcomes : NativeSettle(i, outcome)
  \/ \E fix \in LocFixes : UserLocationMsg(fix)
  \/ Tick

\* The native module's timeout is a timer of the main queue: it fires unless
\* the request has settled before.
SpecNativeFair == InitNative /\ [][NextNative]_vars /\ WF_vars(NativeTimeout)

\* C26: a native request in flight eventually settles; every settling, by a
\* fix, invalid coordinates or an error, releases nativeLocateInFlightRef; the
\* flag is held only while a request is in flight.
C26_NativeRequestSettles ==
  /\ nativeLocateInFlightRef ~> ~nativeLocateInFlightRef
  /\ [][Len(nativeCalls') < Len(nativeCalls) => ~nativeLocateInFlightRef']_vars
  /\ [](nativeLocateInFlightRef <=> Len(nativeCalls) = 1)

\* A request that was started has settled without a fix, the flag is free,
\* and the last call of requestNativeCurrentLocation was not turned away.
C26_Witness ==
  /\ lastNativeReturn = "started" /\ nativeCalls = <<>>
  /\ ~nativeLocateInFlightRef /\ IsNull(userLocation)

\* ------------------------------------------------ the validation of a draft

\* What the user types into the title and the time fields, the markers the
\* server lists, and what a marker under edit carries.
DraftTitles == {<<" ">>, <<"A">>}
DraftTimeTexts == {<<>>, <<"7">>, <<"2", "5">>, <<"0", "9">>}
DraftPayload ==
  <<[id |-> 0, category |-> "cafe"], [id |-> 7, category |-> "friendly_clinic"]>>
EditTitles == {<<"A">>}
EditStarts == {<<>>, <<"0", "9", ":", "3", "0">>}
EditEnds == {<<>>, <<"2", "5", ":", "0", "0">>}

InitDraft == InitOf({AbsentRaw}, {"ios"}, {FALSE})

\* The map is moved once and its markers arrive; the user logs in, opens
\* drafts, fills them in and saves them.
NextValidate ==
  \/ \E loggedIn \in BOOLEAN : AuthChange(loggedIn)
  \/ markerQuerySeqRef = 0 /\ \E msg \in RenderMsgs : MoveEnd(msg)
  \/ \E load \in inflight : QuerySuccess(load, <<DraftPayload>>)
  \/ openDraftAt
  \/ \E i \in 1..Len(markers) : \E title \in EditTitles :
       \E start \in EditStarts : \E end \in EditEnds :
         openEditDraft(markers[i], title, start, end)
  \/ \E value \in DraftTitles : setDraftTitle(value)
  \/ \E key \in TimeKeys : \E value \in DraftTimeTexts : setDraftTimePart(key, value)
  \/ saveDraft

SpecValidate == InitDraft /\ [][NextValidate]_vars

\* C27: a save of a draft that fails validation issues no request, leaves the
\* draft, its mode and the marker list as they are, keeps the draft open and
\* shows one of the validation messages. A draft fails validation when its
\* trimmed title is empty, when one of start and end is given without the
\* other, when an hour is given without its minute or the reverse, or when a
\* time that is given is not two digits of 00..23 and two digits of 00..59.
C27_InvalidDraftNotSubmitted ==
  [][(saveDraft /\ isLoggedIn /\
      LET TwoDigitsUpTo(max) ==
            {<<DigitChars[a + 1], DigitChars[b + 1]>> :
               a \in {x \in 0..9 : x * 10 <= max},
               b \in 0..9} \cap
            {<<DigitChars[(n \div 10) + 1], DigitChars[(n % 10) + 1]>> : n \in 0..max}
          startGiven == draft.openStartHour # <<>> \/ draft.openStartMinute # <<>>
          endGiven == draft.openEndHour # <<>> \/ draft.openEndMinute # <<>>
      IN  \/ \A i \in 1..Len(draft.title) : draft.title[i] = " "
          \/ startGiven # endGiven
          \/ (draft.openStartHour = <<>>) # (draft.openStartMinute = <<>>)
          \/ (draft.openEndHour = <<>>) # (draft.openEndMinute = <<>>)
          \/ startGiven /\ ~(/\ draft.openStartHour \in TwoDigitsUpTo(23)
                             /\ draft.openStartMinute \in TwoDigitsUpTo(59))
          \/ endGiven /\ ~(/\ draft.openEndHour \in TwoDigitsUpTo(23)
                           /\ draft.openEndMinute \in TwoDigitsUpTo(59)))
       => /\ requests' = requests /\ submitCall' = submitCall
          /\ savingDraft' = savingDraft
          /\ draft' = draft /\ editingId' = editingId /\ draftImageFile' = draftImageFile
          /\ markers' = markers
          /\ notice' \in {"start-hour-and-minute", "end-hour-and-minute", "title-required",
                          "start-and-end-together", "start-format", "end-format"}]_vars

\* A draft for the edit of a listed marker whose closing time is 25:00 was
\* saved: the draft is still open and nothing was sent.
C27_Witness ==
  /\ notice = "end-format"
  /\ ~IsNull(draft) /\ draft.openEndHour = <<"2", "5">> /\ draft.openStartHour = <<"0", "9">>
  /\ ~IsNull(editingId) /\ Len(markers) = 2
  /\ requests = <<>> /\ ~savingDraft

\* ------------------------------------------------- the time fields on blur

\* What the user types into a time field: nothing, one digit, values above
\* the largest hour and minute, digits among other characters, zeros.
BlurTimeTexts ==
  {<<>>, <<"7">>, <<"2", "5">>, <<"6", "1">>, <<"a", "9", "b", "3", "c", "1">>, <<"0", "0">>}

NextTime ==
  \/ \E loggedIn \in BOOLEAN : AuthChange(loggedIn)
  \/ openDraftAt
  \/ \E key \in TimeKeys : \E value \in BlurTimeTexts : setDraftTimePart(key, value)
  \/ \E key \in TimeKeys : normalizeDraftTimePartOnBlur(key)
  \/ TimeFixHintTimeout
  \/ closeDraft

SpecTime == InitDraft /\ [][NextTime]_vars

\* C28: the blur of a time field that holds one or two digits leaves the
\* two-digit text of its value, cut to 23 for an hour and 59 for a minute, and
\* leaves the other fields alone; it shows the correction hint of the field
\* when the value was above the maximum and no hint otherwise; the blur of an
\* empty field changes nothing; and a field that was blurred holds a text a
\* second blur leaves as it is, without a hint.
C28_BlurNormalizesTimePart ==
  [][\A key \in TimeKeys :
       normalizeDraftTimePartOnBlur(key) =>
         LET current == draft[key]
             max == IF key \in {"openStartHour", "openEndHour"} THEN 23 ELSE 59
             value == IF Len(current) = 1 THEN DigitValue(current[1])
                      ELSE 10 * DigitValue(current[1]) + DigitValue(current[2])
             TwoDigits(n) == <<DigitChars[(n \div 10) + 1], DigitChars[(n % 10) + 1]>>
         IN  IF current = <<>>
             THEN draft' = draft /\ timeFixHint' = timeFixHint
             ELSE /\ Len(current) \in {1, 2}
                  /\ draft' = [draft EXCEPT ![key] = TwoDigits(IF value > max THEN max
                                                               ELSE value)]
                  /\ value > max =>
                       timeFixHint' = [unit |-> IF max = 23 THEN "hour" ELSE "minute",
                                       normalized |-> TwoDigits(max)]
                  /\ value <= max => timeFixHint' = timeFixHint
                  /\ draft'[key] \in {TwoDigits(n) : n \in 0..max}]_vars

\* The start hour was typed as 25 and the start minute as 7, and both fields
\* were blurred: 23 with the hint of the hour, and 07.
C28_Witness ==
  /\ ~IsNull(draft)
  /\ draft.openStartHour = <<"2", "3">> /\ draft.openStartMinute = <<"0", "7">>
  /\ timeFixHint = [unit |-> "hour", normalized |-> <<"2", "3">>]

\* --------------------------------------------------- the requests of a submit

\* The opening times a marker under edit carries, and what the server answers
\* to a request of a submit: markers with an id, and a body without one.
SubmitEditTimes ==
  {[start |-> <<>>, end |-> <<>>],
   [start |-> <<"0", "9", ":", "3", "0">>, end |-> <<"1", "8", ":", "0", "0">>]}
SubmitReplies ==
  {[id |-> 7, category |-> "friendly_clinic", lat |-> 31000, lng |-> 121000],
   [id |-> 9, category |-> "cafe", lat |-> 31000, lng |-> 121000],
   [category |-> "cafe", lat |-> 31000, lng |-> 121000]}

\* The map is moved once and its markers arrive; the user logs in, opens
\* drafts for creation and for edit, gives them a title and an image, saves
\* them, and the server answers.
NextSubmit ==
  \/ \E loggedIn \in BOOLEAN : AuthChange(loggedIn)
  \/ markerQuerySeqRef = 0 /\ \E msg \in RenderMsgs : MoveEnd(msg)
  \/ \E load \in inflight : QuerySuccess(load, <<DraftPayload>>)
  \/ openDraftAt
  \/ \E i \in 1..Len(markers) : \E title \in EditTitles : \E times \in SubmitEditTimes :
       openEditDraft(markers[i], title, times.start, times.end)
  \/ \E value \in DraftTitles : setDraftTitle(value)
  \/ \E file \in BOOLEAN : pickDraftImage(file)
  \/ closeDraft
  \/ saveDraft
  \/ \E ok \in BOOLEAN : \E raw \in SubmitReplies : MarkerResponse(ok, raw)
  \/ \E ok \in BOOLEAN : \E raw \in SubmitReplies : ImageResponse(ok, raw)

SpecSubmit == InitDraft /\ [][NextSubmit]_vars

\* C29: of the requests of one submit the first is the marker request and
\* only the second can be the image upload; the upload is issued in the step
\* that handles a successful answer to the marker request, for a submit with
\* an image attached, and goes to the id in that answer; a failed marker
\* request and a submit without an image issue no upload.
C29_ImageAfterMarker ==
  /\ [](/\ Len(requests) <= 2
        /\ \A i \in 1..Len(requests) :
             (requests[i].path = "/api/markers/{id}/image") <=> (i = 2))
  /\ [][(Len(requests') = 2 /\ requests' # requests) =>
          /\ Len(requests) = 1 /\ requests'[1] = requests[1]
          /\ submitCall.image
          /\ \E raw \in SubmitReplies :
               /\ MarkerResponse(TRUE, raw)
               /\ "id" \in DOMAIN raw
               /\ requests'[2] = [method |-> "POST", path |-> "/api/markers/{id}/image",
                                  id |-> [value |-> raw.id]]]_vars
  /\ [][(\E raw \in SubmitReplies : MarkerResponse(FALSE, raw)) => requests' = requests]_vars

\* The edit of marker 7 with an image attached was submitted; the server
\* answered the PATCH with a marker of id 9 and the image went to id 9.
C29_Witness ==
  /\ Len(requests) = 2
  /\ requests[1] = [method |-> "PATCH", path |-> "/api/markers/{id}", id |-> [value |-> 7]]
  /\ requests[2].id = [value |-> 9]
  /\ notice = "submitted" /\ IsNull(submitCall)

\* C30: a save that is submitted sends PATCH /api/markers/{id} with the id of
\* the marker under edit when the draft was opened for edit, whatever the id,
\* and POST /api/markers when the draft was opened for creation.
C30_EditPatchesCreatePosts ==
  [][(saveDraft /\ savingDraft') =>
       IF IsNull(editingId)
       THEN requests' = <<[method |-> "POST", path |-> "/api/markers", id |-> Null]>>
       ELSE requests' = <<[method |-> "PATCH", path |-> "/api/markers/{id}",
                           id |-> editingId]>>]_vars

\* C31: the step that ends a submit whose marker request was answered with a
\* marker (the image upload that follows may fail) leaves that marker first
\* in the list, its id in the list exactly once, and starts no viewport query.
C31_SubmitUpdatesList ==
  [][(~IsNull(submitCall) /\ IsNull(submitCall')) =>
       LET Listed(id) ==
             /\ Len(markers') >= 1 /\ markers'[1].id = id
             /\ Cardinality({i \in 1..Len(markers') : markers'[i].id = id}) = 1
             /\ inflight' = inflight /\ markerQuerySeqRef' = markerQuerySeqRef
       IN  /\ \A raw \in SubmitReplies :
                 ("id" \in DOMAIN raw /\ MarkerResponse(TRUE, raw)) => Listed(raw.id)
           /\ submitCall.stage = "image" =>
                \/ Listed(submitCall.created.id)
                \/ \E raw \in SubmitReplies :
                     "id" \in DOMAIN raw /\ ImageResponse(TRUE, raw) /\ Listed(raw.id)]_vars

\* ------------------------------------------------- the deletion of a marker

\* Who logs in, and whose the listed markers are: this user, another, nobody.
PublicIds == {"u1", "u2", NoUser}

\* The map is moved once and its markers arrive; users log in and out, enter
\* add mode, open and close drafts, and delete markers.
NextDelete ==
  \/ \E loggedIn \in BOOLEAN : \E publicId \in PublicIds : AuthChangeTo(loggedIn, publicId)
  \/ markerQuerySeqRef = 0 /\ \E msg \in RenderMsgs : MoveEnd(msg)
  \/ \E load \in inflight : QuerySuccess(load, <<DraftPayload>>)
  \/ handleAddButtonPress
  \/ \E i \in 1..Len(markers) : \E owner \in PublicIds : \E title \in EditTitles :
       openEditDraftOf(markers[i], owner, title, <<>>, <<>>)
  \/ closeDraft
  \/ openDeleteConfirm
  \/ cancelDeleteConfirm
  \/ confirmDeleteDraft
  \/ \E ok \in BOOLEAN : DeleteResponse(ok)
  \/ DeleteReloaded

SpecDelete == InitDraft /\ [][NextDelete]_vars

\* C32: the delete confirmation is open only over an open edit draft of a
\* marker that the user who is logged in owns; it is opened only by a step
\* from an open edit draft, which the step leaves as it is; and a DELETE
\* request goes to the marker under edit, whose owner is the user.
C32_DeleteOnlyOwnEditDraft ==
  /\ [](deleteConfirmOpen =>
          /\ ~IsNull(draft) /\ ~IsNull(editingId)
          /\ isLoggedIn /\ user # "none" /\ draftOwner = user)
  /\ [][(deleteConfirmOpen' /\ ~deleteConfirmOpen) =>
          /\ ~IsNull(draft) /\ ~IsNull(editingId)
          /\ draft' = draft /\ editingId' = editingId]_vars
  /\ [][(~IsNull(lastDelete') /\ lastDelete'.stage = "request" /\ lastDelete' # lastDelete) =>
          /\ ~IsNull(editingId) /\ lastDelete'.id = editingId
          /\ user # "none" /\ draftOwner = user
          /\ lastDelete'.owner = user]_vars

\* The user u2 opened the edit draft of an own marker, marker 7, confirmed
\* its deletion, and the deletion went through.
C32_Witness ==
  /\ ~IsNull(lastDelete) /\ lastDelete.stage = "done"
  /\ lastDelete.id = [value |-> 7] /\ lastDelete.user = "u2"
  /\ notice = "deleted" /\ IsNull(draft) /\ ~deleteConfirmOpen

\* ----------------------------------------------------- a viewport load fails

\* C33: the failure of a load leaves the markers as they are and starts no
\* new load; the failure of the newest load sets the error message; the
\* failure of a load that a later load (with or without categories) has
\* superseded changes neither the error nor the loading flag; and a new query
\* is only started by a step that moves the map or changes the categories.
C33_FailedLoadKeepsMarkers ==
  [][/\ \A load \in inflight :
          QueryFailure(load) =>
            /\ markers' = markers
            /\ markerQuerySeqRef' = markerQuerySeqRef /\ inflight' = inflight \ {load}
            /\ (load.seq = markerQuerySeqRef /\ ~lastLoadEmpty) => error' # ""
            /\ (load.seq < markerQuerySeqRef \/ lastLoadEmpty) =>
                 (error' = error /\ loading' = loading)
     /\ markerQuerySeqRef' # markerQuerySeqRef =>
          \/ \E msg \in LoadMsgs : MoveEnd(msg)
          \/ visibleCats' # visibleCats]_vars

\* ------------------------------------------------- the category filter

\* C34: a step that changes the category filter changes neither the fetched
\* markers nor the query sequence number and starts no viewport query.
C34_FilterIsDerivedView ==
  [][visibleCats' # visibleCats =>
       /\ markers' = markers
       /\ markerQuerySeqRef' = markerQuerySeqRef
       /\ inflight' = inflight]_vars

\* ------------------------------------------------- a tile source change

TileFixes == {[latitude |-> 31230, longitude |-> 121470]}

\* Camera moves, loads, fixes of the page's geolocation, the page's mapReady,
\* tile changes and the session restore.
NextTile ==
  \/ \E msg \in RenderMsgs : MoveEnd(msg)
  \/ \E load \in inflight : \E payload \in RenderPayloads : QuerySuccess(load, <<payload>>)
  \/ \E fix \in TileFixes : UserLocationMsg(fix)
  \/ MapReadyMsg
  \/ \E key \in TileProviders : setTileProvider(key)
  \/ \E readOk \in BOOLEAN : SessionRestore(readOk)

SpecTile == InitRender /\ [][NextTile]_vars

CreateReplies ==
  {[id |-> 7, category |-> "friendly_clinic", lat |-> 31000, lng |-> 121000],
   [id |-> 9, category |-> "cafe", lat |-> 31000, lng |-> 121000]}

\* The user logs in, opens a draft for creation while none is being saved,
\* gives it a title and an image, saves it and closes it; the server answers
\* or fails.
NextCreate ==
  \/ \E loggedIn \in BOOLEAN : AuthChange(loggedIn)
  \/ ~savingDraft /\ openDraftAt
  \/ \E value \in DraftTitles : setDraftTitle(value)
  \/ \E file \in BOOLEAN : pickDraftImage(file)
  \/ closeDraft
  \/ saveDraft
  \/ \E ok \in BOOLEAN : \E raw \in CreateReplies : MarkerResponse(ok, raw)
  \/ \E ok \in BOOLEAN : \E raw \in CreateReplies : ImageResponse(ok, raw)

SpecCreate == InitDraft /\ [][NextCreate]_vars

\* C36: between the opening of a creation draft and the opening of the next
\* draft at most one POST /api/markers is answered with success.
C36_OneMarkerPerDraft == draftPosts <= 1

\* ------------------------------------------ no write before the restore

\* C37: until the session restore has completed no write of the camera is
\* pending, and no step taken before its completion changes the stored
\* camera: the restore reads what the previous session wrote.
C37_NoWriteBeforeRestore ==
  /\ [](~sessionRestored => persistTimer = TimerOff)
  /\ [][~sessionRestored => storedViewport' = storedViewport]_vars

\* The camera has moved away from the default before the restore has
\* completed, and the camera of the previous session is still in storage.
C37_Witness ==
  /\ ~sessionRestored
  /\ mapViewport # INITIAL_VIEW
  /\ storedViewport = JsonOf([latitude |-> 48857, longitude |-> 2352, zoom |-> 13])
  /\ persistTimer = TimerOff

\* ------------------------------------------------------ the nearby search

\* The variables of a draft and of a deletion.
draftOnlyVars ==
  <<isLoggedIn, draft, editingId, draftImageFile, savingDraft, timeFixHint, submitCall,
    requests, addMode, user, canDeleteDraft, deleteConfirmOpen, deletingMarker,
    draftOwner, lastDelete, draftPosts>>

\* The location variables but the notice.
locOtherVars ==
  <<platform, isActive, mapReady, locationPermissionGranted, userLocation,
    nativeLocateInFlightRef, nativeCalls, fallbackAge, startupCameraAppliedRef,
    startupCameras, lastSetView, watchdogTimer, nativeStartTimer, lastNativeReturn>>

\* searchNearby() up to its await; its button is disabled while nearbyLoading.
searchNearby ==
  /\ ~nearbyLoading
  /\ IF IsNull(userLocation)
     THEN notice' = "allow-location-first" /\ UNCHANGED nearbyLoading
     ELSE nearbyLoading' = TRUE /\ UNCHANGED notice
  /\ UNCHANGED <<nearbyOnly, nearbyIds>>
  /\ UNCHANGED <<loadVars, viewVars, locOtherVars, extVars, draftOnlyVars, moduleVars>>
  /\ RenderMarkersStep

\* setMarkers(prev => ...) of searchNearby: a Map filled with the markers
\* held, then with the results; and the same as a plain concatenation.
NearbyMergeAppend(prev, results) == prev \o results
NearbyMerge(prev, results) == MapSetAll(prev \o results, <<>>)

\* The ids of a list of markers.
IdsOf(list) == {list[i].id : i \in 1..Len(list)}

\* GET /api/markers/nearby is answered (ok, with this body, taken to list
\* its markers by growing distance) or fails: the rest of searchNearby.
NearbyResponse(ok, payload) ==
  /\ nearbyLoading
  /\ nearbyLoading' = FALSE
  /\ IF ok
     THEN LET results == normalizeMarkers(payload, 0, 3)
          IN  /\ markers' = NearbyMerge(markers, results)
              /\ nearbyIds' = IdsOf(results)
              /\ nearbyOnly' = TRUE
              /\ notice' = IF results = <<>> THEN "nearby-none" ELSE notice
     ELSE /\ notice' = "request-failed"
          /\ UNCHANGED <<markers, nearbyIds, nearbyOnly>>
  /\ UNCHANGED <<error, loading, hasLoadedMarkersRef, markerQuerySeqRef, visibleCats,
                 mapBounds, inflight, lastLoadEmpty, anyFailed, lastDone>>
  /\ UNCHANGED <<viewVars, locOtherVars, extVars, draftOnlyVars, moduleVars>>
  /\ webRendered' = RenderMarkersEffect(mapReady,
                      FilteredBy(markers', visibleCats, nearbyOnly', nearbyIds'),
                      rendererBooted, webRendered)

\* clearNearbyFilter()
clearNearbyFilter ==
  /\ nearbyOnly
  /\ nearbyOnly' = FALSE
  /\ UNCHANGED <<nearbyLoading, nearbyIds>>
  /\ UNCHANGED <<loadVars, viewVars, locVars, extVars, draftOnlyVars, moduleVars>>
  /\ webRendered' = RenderMarkersEffect(mapReady,
                      FilteredBy(markers, visibleCats, FALSE, nearbyIds),
                      rendererBooted, webRendered)

\* ------------------------------------------------- no id twice in the list

\* Viewports inside the map and across the anti-meridian.
MergeMsgs ==
  {[latitude |-> INITIAL_VIEW.latitude, longitude |-> INITIAL_VIEW.longitude,
    zoom |-> INITIAL_VIEW.zoom, south |-> 30000, north |-> 40000,
    west |-> e[1], east |-> e[2]] :
     e \in {<<110000, 120000>>, <<170000, 190000>>}}

\* What the server answers: to a viewport query, to a nearby search, to a
\* submit. No answer lists an id twice.
MergePayloads == {<<[id |-> 1], [id |-> 2]>>, <<[id |-> 2], [id |-> 3]>>}
MergePayloadsFor(load) ==
  IF Len(load.queries) = 1 THEN {<<p>> : p \in MergePayloads}
  ELSE {<<p, q>> : p \in MergePayloads, q \in MergePayloads}
NearbyPayloads == {<<>>, <<[id |-> 3], [id |-> 1], [id |-> 4]>>}
MergeReplies ==
  {[id |-> 2, category |-> "friendly_clinic", lat |-> 31000, lng |-> 121000],
   [id |-> 9, category |-> "cafe", lat |-> 31000, lng |-> 121000]}

\* The map is moved twice at most; a fix of the page arrives; the user
\* searches nearby, clears that filter, logs in, opens a draft with a title
\* and saves it; the server answers or fails.
NextMerge ==
  \/ markerQuerySeqRef <= 1 /\ \E msg \in MergeMsgs : MoveEnd(msg)
  \/ \E load \in inflight : \E payloads \in MergePayloadsFor(load) :
       QuerySuccess(load, payloads)
  \/ IsNull(userLocation) /\ \E fix \in TileFixes : UserLocationMsg(fix)
  \/ searchNearby
  \/ \E ok \in BOOLEAN : \E payload \in NearbyPayloads : NearbyResponse(ok, payload)
  \/ clearNearbyFilter
  \/ ~isLoggedIn /\ AuthChange(TRUE)
  \/ ~savingDraft /\ openDraftAt
  \/ setDraftTitle(<<"a">>)
  \/ saveDraft
  \/ \E ok \in BOOLEAN : \E raw \in MergeReplies : MarkerResponse(ok, raw)

SpecMerge == InitDraft /\ [][NextMerge]_vars

\* C38: no two entries of the marker list have the same id.
C38_NoDuplicateIds ==
  \A i, j \in 1..Len(markers) : markers[i].id = markers[j].id => i = j

\* The list holds markers of both segments of a load across the
\* anti-meridian whose answers overlapped, of a nearby search and of a submit.
C38_Witness ==
  /\ \E i \in 1..Len(markers) : markers[i].slice = 2
  /\ \E i \in 1..Len(markers) : markers[i].slice = 3
  /\ \E i \in 1..Len(markers) : markers[i].slice = 0
  /\ Len(markers) >= 4

\* ------------------------------------------- the native location modules

\* Everything but the variables of the native modules.
appVars == <<loadVars, viewVars, locVars, extVars, webRendered, draftOnlyVars, nearbyVars>>

\* A promise of getCurrentPosition: how often resolve or reject was called
\* on it (counted up to two) and with what the first time. Promise 0 stands
\* for a nil block, whose call does nothing.
NewPromise == [settled |-> 0, code |-> ""]
Settle(ps, p, code) ==
  IF p = 0 THEN ps
  ELSE [ps EXCEPT ![p] = [settled |-> IF ps[p].settled = 0 THEN 1 ELSE 2,
                          code |-> IF ps[p].settled = 0 THEN code ELSE ps[p].code]]

\* NativeLocation of AppDelegate.swift; all of it runs on the main queue.
IosState ==
  [promises |-> promises, requestInFlight |-> requestInFlight,
   resolveBlock |-> resolveBlock, rejectBlock |-> rejectBlock,
   timeoutWorkItem |-> timeoutWorkItem, locationRequested |-> locationRequested]

IosApply(s) ==
  /\ promises' = s.promises
  /\ requestInFlight' = s.requestInFlight
  /\ resolveBlock' = s.resolveBlock
  /\ rejectBlock' = s.rejectBlock
  /\ timeoutWorkItem' = s.timeoutWorkItem
  /\ locationRequested' = s.locationRequested

\* resetRequestState()
resetRequestState(s) ==
  [s EXCEPT !.timeoutWorkItem = FALSE, !.resolveBlock = 0, !.rejectBlock = 0,
            !.requestInFlight = FALSE]

\* finishSuccess(location, provider)
finishSuccess(s, provider) ==
  IF ~s.requestInFlight THEN s
  ELSE resetRequestState([s EXCEPT !.promises = Settle(s.promises, s.resolveBlock, provider)])

\* finishFailure(code, message, error)
finishFailure(s, code) ==
  IF ~s.requestInFlight THEN s
  ELSE resetRequestState([s EXCEPT !.promises = Settle(s.promises, s.rejectBlock, code)])

\* startTimeout(timeoutMs): the work item before it is cancelled.
startTimeout(s) == [s EXCEPT !.timeoutWorkItem = TRUE]

IsAuthorized(status) == status \in {"authorizedAlways", "authorizedWhenInUse"}
IsDenied(status) == status \in {"denied", "restricted"}

\* The test of requestInFlight at the head of startRequest.
IsBusy(s) == s.requestInFlight

\* startRequest(options, resolve, reject) for promise p: servicesEnabled is
\* CLLocationManager.locationServicesEnabled(), fresh is whether the manager
\* holds a location no older than maxAgeMs. ensureLocationManager always
\* leaves a manager.
startRequest(s, p, servicesEnabled, status, fresh) ==
  IF IsBusy(s) THEN [s EXCEPT !.promises = Settle(s.promises, p, "LOCATION_BUSY")]
  ELSE IF ~servicesEnabled
  THEN [s EXCEPT !.promises = Settle(s.promises, p, "LOCATION_PROVIDER_DISABLED")]
  ELSE LET t == [s EXCEPT !.resolveBlock = p, !.rejectBlock = p, !.requestInFlight = TRUE]
       IN  IF IsAuthorized(status)
           THEN (IF fresh THEN finishSuccess(t, "last_known")
                 ELSE [startTimeout(t) EXCEPT !.locationRequested = TRUE])
           ELSE IF status = "notDetermined" THEN startTimeout(t)
           ELSE IF IsDenied(status) THEN finishFailure(t, "LOCATION_PERMISSION_DENIED")
           ELSE finishFailure(t, "LOCATION_INTERNAL_ERROR")

\* handleAuthorizationChange(status, manager)
handleAuthorizationChange(s, status, fresh) ==
  IF IsAuthorized(status)
  THEN (IF fresh THEN finishSuccess(s, "last_known")
        ELSE [s EXCEPT !.locationRequested = TRUE])
  ELSE IF IsDenied(status) THEN finishFailure(s, "LOCATION_PERMISSION_DENIED")
  ELSE IF status = "notDetermined" THEN s
  ELSE finishFailure(s, "LOCATION_INTERNAL_ERROR")

\* getCurrentPosition of the iOS module: startRequest on the main queue.
IosGetCurrentPosition(servicesEnabled, fresh) ==
  /\ platform = "ios" /\ Len(promises) < MaxInFlight
  /\ IosApply(startRequest([IosState EXCEPT !.promises = Append(promises, NewPromise)],
                           Len(promises) + 1, servicesEnabled, authorizationStatus, fresh))
  /\ UNCHANGED <<authorizationStatus, androidRequests>>
  /\ UNCHANGED appVars

\* locationManagerDidChangeAuthorization: the status changes, or is reported.
DidChangeAuthorization(status, fresh) ==
  /\ platform = "ios"
  /\ authorizationStatus' = status
  /\ IosApply(IF ~requestInFlight THEN IosState
              ELSE handleAuthorizationChange(IosState, status, fresh))
  /\ UNCHANGED androidRequests
  /\ UNCHANGED appVars

\* locationManager(_:didUpdateLocations:), the answer to a requestLocation().
DidUpdateLocations(hasLocation) ==
  /\ platform = "ios" /\ locationRequested
  /\ LET s == [IosState EXCEPT !.locationRequested = FALSE]
     IN  IosApply(IF ~requestInFlight THEN s
                  ELSE IF hasLocation THEN finishSuccess(s, "core_location")
                  ELSE finishFailure(s, "LOCATION_UNAVAILABLE"))
  /\ UNCHANGED <<authorizationStatus, androidRequests>>
  /\ UNCHANGED appVars

\* locationManager(_:didFailWithError:); after locationUnknown the manager
\* goes on trying.
DidFailWithError(clError) ==
  /\ platform = "ios" /\ locationRequested
  /\ LET s == [IosState EXCEPT !.locationRequested = (clError = "locationUnknown")]
     IN  IosApply(IF ~requestInFlight THEN s
                  ELSE IF clError = "locationUnknown" THEN s
                  ELSE IF clError = "denied"
                  THEN finishFailure(s, "LOCATION_PERMISSION_DENIED")
                  ELSE finishFailure(s, "LOCATION_UNAVAILABLE"))
  /\ UNCHANGED <<authorizationStatus, androidRequests>>
  /\ UNCHANGED appVars

\* The work item of startTimeout runs.
IosTimeout ==
  /\ platform = "ios" /\ timeoutWorkItem
  /\ IosApply([finishFailure(IosState, "LOCATION_TIMEOUT") EXCEPT !.timeoutWorkItem = FALSE])
  /\ UNCHANGED <<authorizationStatus, androidRequests>>
  /\ UNCHANGED appVars

\* NativeLocationModule.kt. handled.compareAndSet(false, true): whether it
\* succeeds (handled is true afterwards either way), and a test that always
\* succeeds.
compareAndSetAlways(handled) == TRUE
compareAndSet(handled) == ~handled

\* requestSingleLocation for promise p that did not throw: the timeout is
\* posted; on API 30 and later (R) the consumer of getCurrentLocation and
\* the timer of the cancellation, before that the listener of
\* requestSingleUpdate and a second timeout.
requestSingleLocation(p, api) ==
  [promise |-> p, handled |-> FALSE, api |-> api, timeoutRunnable |-> TRUE,
   callback |-> (api = "R"), listening |-> (api = "legacy"), lateTimer |-> TRUE]

\* getCurrentPosition of the Android module: pre is the outcome of its
\* tests (a rejection code, last_known, or request); thrown is what
\* getCurrentLocation or requestSingleUpdate throws.
AndroidGetCurrentPosition(pre, api, thrown) ==
  /\ platform = "android" /\ Len(promises) < MaxInFlight
  /\ LET p == Len(promises) + 1
         ps == Append(promises, NewPromise)
     IN  IF pre # "request"
         THEN promises' = Settle(ps, p, pre) /\ UNCHANGED androidRequests
         ELSE IF thrown = "SecurityException"
         THEN /\ promises' = (IF compareAndSet(FALSE)
                              THEN Settle(ps, p, "LOCATION_PERMISSION_DENIED") ELSE ps)
              /\ UNCHANGED androidRequests
         ELSE IF thrown = "Throwable"
         THEN /\ promises' = (IF compareAndSet(FALSE)
                              THEN Settle(ps, p, "LOCATION_INTERNAL_ERROR") ELSE ps)
              /\ UNCHANGED androidRequests
         ELSE /\ promises' = ps
              /\ androidRequests' = Append(androidRequests, requestSingleLocation(p, api))
  /\ UNCHANGED <<requestInFlight, resolveBlock, rejectBlock, timeoutWorkItem,
                 authorizationStatus, locationRequested>>
  /\ UNCHANGED appVars

\* timeoutRunnable runs.
AndroidTimeoutRunnable(i) ==
  /\ platform = "android" /\ i \in 1..Len(androidRequests)
  /\ androidRequests[i].timeoutRunnable
  /\ LET r == androidRequests[i]
     IN  /\ promises' = IF compareAndSet(r.handled)
                        THEN Settle(promises, r.promise, "LOCATION_TIMEOUT") ELSE promises
         /\ androidRequests' =
              [androidRequests EXCEPT ![i] = [r EXCEPT !.timeoutRunnable = FALSE,
                                                       !.handled = TRUE]]
  /\ UNCHANGED <<requestInFlight, resolveBlock, rejectBlock, timeoutWorkItem,
                 authorizationStatus, locationRequested>>
  /\ UNCHANGED appVars

\* The second timer, posted after timeoutRunnable with the same delay on
\* the same handler: it cancels the request (R) or is a second timeout.
AndroidLateTimer(i) ==
  /\ platform = "android" /\ i \in 1..Len(androidRequests)
  /\ androidRequests[i].lateTimer /\ ~androidRequests[i].timeoutRunnable
  /\ LET r == androidRequests[i]
     IN  IF r.api = "R"
         THEN /\ androidRequests' =
                   [androidRequests EXCEPT ![i] =
                      [r EXCEPT !.lateTimer = FALSE,
                                !.callback = IF ~r.handled THEN FALSE ELSE r.callback]]
              /\ UNCHANGED promises
         ELSE /\ promises' = IF compareAndSet(r.handled)
                             THEN Settle(promises, r.promise, "LOCATION_TIMEOUT")
                             ELSE promises
              /\ androidRequests' =
                   [androidRequests EXCEPT ![i] =
                      [r EXCEPT !.lateTimer = FALSE, !.handled = TRUE,
                                !.listening = IF compareAndSet(r.handled) THEN FALSE
                                              ELSE r.listening]]
  /\ UNCHANGED <<requestInFlight, resolveBlock, rejectBlock, timeoutWorkItem,
                 authorizationStatus, locationRequested>>
  /\ UNCHANGED appVars

\* The consumer of getCurrentLocation is called, with a location or null.
AndroidLocationCallback(i, hasLocation) ==
  /\ platform = "android" /\ i \in 1..Len(androidRequests)
  /\ androidRequests[i].callback
  /\ LET r == androidRequests[i]
     IN  /\ promises' = IF ~compareAndSet(r.handled) THEN promises
                        ELSE IF hasLocation THEN Settle(promises, r.promise, "provider")
                        ELSE Settle(promises, r.promise, "LOCATION_UNAVAILABLE")
         /\ androidRequests' =
              [androidRequests EXCEPT ![i] = [r EXCEPT !.callback = FALSE,
                                                       !.timeoutRunnable = FALSE,
                                                       !.handled = TRUE]]
  /\ UNCHANGED <<requestInFlight, resolveBlock, rejectBlock, timeoutWorkItem,
                 authorizationStatus, locationRequested>>
  /\ UNCHANGED appVars

\* onLocationChanged of the listener; a single update ends the listening.
onLocationChanged(i) ==
  /\ platform = "android" /\ i \in 1..Len(androidRequests)
  /\ androidRequests[i].listening
  /\ LET r == androidRequests[i]
     IN  /\ promises' = IF compareAndSet(r.handled)
                        THEN Settle(promises, r.promise, "provider") ELSE promises
         /\ androidRequests' =
              [androidRequests EXCEPT ![i] = [r EXCEPT !.listening = FALSE,
                                                       !.timeoutRunnable = FALSE,
                                                       !.handled = TRUE]]
  /\ UNCHANGED <<requestInFlight, resolveBlock, rejectBlock, timeoutWorkItem,
                 authorizationStatus, locationRequested>>
  /\ UNCHANGED appVars

\* onProviderDisabled of the listener, for the provider of the request
\* (same) or for another.
onProviderDisabled(i, same) ==
  /\ platform = "android" /\ i \in 1..Len(androidRequests)
  /\ androidRequests[i].listening
  /\ LET r == androidRequests[i]
     IN  IF ~same THEN UNCHANGED <<promises, androidRequests>>
         ELSE /\ promises' = IF compareAndSet(r.handled)
                             THEN Settle(promises, r.promise, "LOCATION_PROVIDER_DISABLED")
                             ELSE promises
              /\ androidRequests' =
                   [androidRequests EXCEPT ![i] =
                      [r EXCEPT !.listening = IF compareAndSet(r.handled) THEN FALSE
                                              ELSE r.listening,
                                !.timeoutRunnable = FALSE, !.handled = TRUE]]
  /\ UNCHANGED <<requestInFlight, resolveBlock, rejectBlock, timeoutWorkItem,
                 authorizationStatus, locationRequested>>
  /\ UNCHANGED appVars

\* ------------------------------------------- every promise settled once

AuthStatuses == {"notDetermined", "authorizedWhenInUse", "denied", "unknown"}
ClErrors == {"locationUnknown", "denied", "network"}
AndroidPres ==
  {"LOCATION_SERVICE_UNAVAILABLE", "LOCATION_PERMISSION_DENIED",
   "LOCATION_PROVIDER_DISABLED", "last_known", "request"}
AndroidApis == {"R", "legacy"}
AndroidThrown == {"none", "SecurityException", "Throwable"}

InitModule == InitOf({AbsentRaw}, {"ios", "android"}, {FALSE})

\* Calls of getCurrentPosition at any time, and the callbacks of the
\* system in any order.
NextModule ==
  \/ \E servicesEnabled \in BOOLEAN : \E fresh \in BOOLEAN :
       IosGetCurrentPosition(servicesEnabled, fresh)
  \/ \E status \in AuthStatuses : \E fresh \in BOOLEAN : DidChangeAuthorization(status, fresh)
  \/ \E hasLocation \in BOOLEAN : DidUpdateLocations(hasLocation)
  \/ \E clError \in ClErrors : DidFailWithError(clError)
  \/ IosTimeout
  \/ \E pre \in AndroidPres : \E api \in AndroidApis : \E thrown \in AndroidThrown :
       AndroidGetCurrentPosition(pre, api, thrown)
  \/ \E i \in 1..Len(androidRequests) : AndroidTimeoutRunnable(i)
  \/ \E i \in 1..Len(androidRequests) : AndroidLateTimer(i)
  \/ \E i \in 1..Len(androidRequests) : \E hasLocation \in BOOLEAN :
       AndroidLocationCallback(i, hasLocation)
  \/ \E i \in 1..Len(androidRequests) : onLocationChanged(i)
  \/ \E i \in 1..Len(androidRequests) : \E same \in BOOLEAN : onProviderDisabled(i, same)

\* The timers of both modules run when they are due.
SpecModuleFair ==
  /\ InitModule /\ [][NextModule]_vars
  /\ WF_vars(IosTimeout)
  /\ WF_vars(\E i \in 1..Len(androidRequests) : AndroidTimeoutRunnable(i))

\* C39: resolve or reject is called at most once on every promise of
\* getCurrentPosition, and on every promise it is called in the end; on iOS
\* a call that arrives while a request is in flight is rejected with
\* LOCATION_BUSY in that step and leaves the blocks, the timeout and the
\* promise of the request in flight as they are.
C39_SettledExactlyOnce ==
  /\ [](\A p \in 1..Len(promises) : promises[p].settled <= 1)
  /\ \A p \in 1..MaxInFlight :
       (Len(promises) >= p) ~> (Len(promises) >= p /\ promises[p].settled = 1)
  /\ [][(platform = "ios" /\ requestInFlight /\ Len(promises') > Len(promises)) =>
          /\ promises' = Append(promises, [settled |-> 1, code |-> "LOCATION_BUSY"])
          /\ requestInFlight'
          /\ resolveBlock' = resolveBlock /\ rejectBlock' = rejectBlock
          /\ timeoutWorkItem' = timeoutWorkItem]_vars

\* On iOS a call was rejected as busy while the request before it was in
\* flight, and that request then ended in its timeout.
C39_Witness ==
  /\ platform = "ios" /\ Len(promises) >= 2
  /\ promises[1] = [settled |-> 1, code |-> "LOCATION_TIMEOUT"]
  /\ promises[2] = [settled |-> 1, code |-> "LOCATION_BUSY"]
  /\ ~requestInFlight /\ ~timeoutWorkItem

====
